---- MODULE Spec2Model ----
(***************************************************************************)
(* Reverse smart proxy (src/src/proxy/proxyServer.ts), its round-robin     *)
(* LoadBalancer (src/src/proxy/loadBalancer.ts) and its in-memory Cache    *)
(* (the Cache class in src/src/shared/formatters.ts).                      *)
(*                                                                         *)
(* Strings are sequences of tokens: "/employees?format=json" is            *)
(* <<"/", "employees", "?", "format", "=", "json">>.  The string functions *)
(* of the source (split, replace, includes, endsWith, URLSearchParams)     *)
(* are computed on these sequences.                                        *)
(***************************************************************************)
EXTENDS Integers, Sequences, FiniteSets, TLC

VARIABLES
    proc,           \* the proxy process: "starting", "listening" or "crashed"
    call,           \* the last call made of the Cache's interface itself, and what it returned
    servers,        \* LoadBalancer.servers
    currentIndex,   \* LoadBalancer.currentIndex
    store,          \* Cache.store : key -> CacheEntry
    metrics,        \* the metrics object of proxyServer.ts
    responseTimes,  \* the responseTimes array of proxyServer.ts
    now,            \* Date.now()
    db,             \* per resource, the number of writes the backends' shared database has applied
    reqs            \* the requests received so far, in order of arrival

vars == <<proc, call, servers, currentIndex, store, metrics, responseTimes, now, db, reqs>>

----------------------------------------------------------------------------
(* Bounds *)

MaxRequests == 3
MaxDrift == 1
MaxPeriods == 1
MaxCycleRequests == 4
MaxWindowRequests == 102

(* Configuration and program constants *)

ttlSeconds == 30
MsPerSecond == 1000
MaxResponseTimes == 100

\* the default of DW_SERVERS
DefaultPool == <<"dw1", "dw2">>

\* the pools the proxy may be configured with (DW_SERVERS)
Pools == {<<"dw1">>, <<"dw1", "dw2">>, <<"dw1", "dw2", "dw3">>}

\* the backend that cannot be reached in the specification of a failing
\* backend, and the pools of three that have it first, second and third
UnreachableServer == "dw1"
PoolsOfThree == {<<"dw1", "dw2", "dw3">>, <<"dw2", "dw1", "dw3">>, <<"dw2", "dw3", "dw1">>}

TTL == ttlSeconds * MsPerSecond

None == "none"

\* null, for a value that is otherwise a record
Null == [null |-> TRUE]

----------------------------------------------------------------------------
(* String functions on token sequences *)

\* the tokens in the order String.prototype.localeCompare gives them
Alphabet == <<"&", "/", "=", "?", "0", "1", "5", "departments", "employees",
              "format", "json", "limit", "offset", "v", "xml">>

TokRank(t) == IF \E i \in 1..Len(Alphabet) : Alphabet[i] = t
              THEN CHOOSE i \in 1..Len(Alphabet) : Alphabet[i] = t
              ELSE 0

RECURSIVE localeCompare(_, _)
\* a.localeCompare(b): negative, zero or positive
localeCompare(a, b) ==
    IF a = <<>> /\ b = <<>> THEN 0
    ELSE IF a = <<>> THEN -1
    ELSE IF b = <<>> THEN 1
    ELSE IF TokRank(Head(a)) < TokRank(Head(b)) THEN -1
    ELSE IF TokRank(Head(a)) > TokRank(Head(b)) THEN 1
    ELSE localeCompare(Tail(a), Tail(b))

\* s.indexOf(t), 1-based, 0 when absent
IndexOf(s, t) == IF \E i \in 1..Len(s) : s[i] = t
                 THEN CHOOSE i \in 1..Len(s) : s[i] = t /\ \A j \in 1..(i-1) : s[j] # t
                 ELSE 0

RECURSIVE Split(_, _)
\* s.split(sep): the sequence of the pieces of s between the separators
Split(s, sep) ==
    LET i == IndexOf(s, sep)
    IN  IF i = 0 THEN <<s>>
        ELSE <<SubSeq(s, 1, i-1)>> \o Split(SubSeq(s, i+1, Len(s)), sep)

\* s.includes(p)
Includes(s, p) ==
    \E i \in 0..(Len(s) - Len(p)) : SubSeq(s, i+1, i+Len(p)) = p

\* a path left as it is
StripTrailingSlashKeeps(s) == s

\* s.replace(/\/$/, '')
StripTrailingSlash(s) ==
    IF Len(s) > 0 /\ s[Len(s)] = "/" THEN SubSeq(s, 1, Len(s)-1) ELSE s

\* method.toUpperCase()
toUpperCase(m) ==
    CASE m = "get" -> "GET"
      [] m = "post" -> "POST"
      [] m = "put" -> "PUT"
      [] m = "delete" -> "DELETE"
      [] OTHER -> m

RECURSIVE JoinWith(_, _)
\* pieces.join(sep)
JoinWith(pieces, sep) ==
    IF pieces = <<>> THEN <<>>
    ELSE IF Len(pieces) = 1 THEN pieces[1]
    ELSE pieces[1] \o <<sep>> \o JoinWith(Tail(pieces), sep)

----------------------------------------------------------------------------
(* URLSearchParams *)

RECURSIVE ParsePieces(_)
ParsePieces(pieces) ==
    IF pieces = <<>> THEN <<>>
    ELSE LET p == Head(pieces)
             i == IndexOf(p, "=")
         IN  IF p = <<>> THEN ParsePieces(Tail(pieces))
             ELSE IF i = 0 THEN <<<<p, <<>>>>>> \o ParsePieces(Tail(pieces))
             ELSE <<<<SubSeq(p, 1, i-1), SubSeq(p, i+1, Len(p))>>>>
                  \o ParsePieces(Tail(pieces))

\* new URLSearchParams(q): the list of [name, value] pairs of q
URLSearchParams(q) == ParsePieces(Split(q, "&"))

\* params.has(name)
ParamsHas(params, name) == \E i \in 1..Len(params) : params[i][1] = name

\* params.get(name): the first value of the name; the empty string stands for
\* null, which `|| 'json'` treats like the empty string
ParamsGet(params, name) ==
    IF ParamsHas(params, name)
    THEN params[CHOOSE i \in 1..Len(params) :
                   params[i][1] = name /\ \A j \in 1..(i-1) : params[j][1] # name][2]
    ELSE <<>>

\* params.delete(name): every pair of that name removed
ParamsDelete(params, name) == SelectSeq(params, LAMBDA p : p[1] # name)

RECURSIVE InsertSorted(_, _)
InsertSorted(sorted, p) ==
    IF sorted = <<>> THEN <<p>>
    ELSE IF localeCompare(p[1], Head(sorted)[1]) < 0 THEN <<p>> \o sorted
    ELSE <<Head(sorted)>> \o InsertSorted(Tail(sorted), p)

\* the parameters left in the order of the URL
SortByNameUnsorted(params) == params

RECURSIVE SortByName(_)
\* Array.prototype.sort((a, b) => a[0].localeCompare(b[0])), which is stable
SortByName(params) ==
    IF params = <<>> THEN <<>>
    ELSE InsertSorted(SortByName(SubSeq(params, 1, Len(params)-1)), params[Len(params)])

RECURSIVE MapKV(_)
\* sortedParams.map(([k, v]) => `${k}=${v}`)
MapKV(params) ==
    IF params = <<>> THEN <<>>
    ELSE <<Head(params)[1] \o <<"=">> \o Head(params)[2]>> \o MapKV(Tail(params))

----------------------------------------------------------------------------
(* Cache *)

\* generateKey without the format in the key
generateKeyNoFormat(method, url) ==
    LET parts == Split(url, "?")
        pathPart == parts[1]
        queryPart == IF Len(parts) >= 2 THEN parts[2] ELSE <<>>
        normalizedPath == StripTrailingSlash(pathPart)
        params == URLSearchParams(queryPart)
        sortedParams == SortByName(ParamsDelete(params, <<"format">>))
        otherParams == JoinWith(MapKV(sortedParams), "&")
    IN  <<toUpperCase(method), ":">> \o normalizedPath \o <<"?">> \o otherParams

\* generateKey without the default of the format
generateKeyNoDefault(method, url) ==
    LET parts == Split(url, "?")
        pathPart == parts[1]
        queryPart == IF Len(parts) >= 2 THEN parts[2] ELSE <<>>
        normalizedPath == StripTrailingSlash(pathPart)
        params == URLSearchParams(queryPart)
        format == ParamsGet(params, <<"format">>)
        sortedParams == SortByName(ParamsDelete(params, <<"format">>))
        otherParams == JoinWith(MapKV(sortedParams), "&")
        queryString == <<"format", "=">> \o format
                       \o (IF otherParams # <<>> THEN <<"&">> \o otherParams ELSE <<>>)
    IN  <<toUpperCase(method), ":">> \o normalizedPath \o <<"?">> \o queryString

\* Cache.generateKey
generateKey(method, url) ==
    LET parts == Split(url, "?")
        pathPart == parts[1]
        queryPart == IF Len(parts) >= 2 THEN parts[2] ELSE <<>>
        normalizedPath == StripTrailingSlash(pathPart)
        params == URLSearchParams(queryPart)
        got == ParamsGet(params, <<"format">>)
        format == IF got = <<>> THEN <<"json">> ELSE got
        sortedParams == SortByName(ParamsDelete(params, <<"format">>))
        otherParams == JoinWith(MapKV(sortedParams), "&")
        queryString == <<"format", "=">> \o format
                       \o (IF otherParams # <<>> THEN <<"&">> \o otherParams ELSE <<>>)
    IN  <<toUpperCase(method), ":">> \o normalizedPath \o <<"?">> \o queryString

\* Cache.shouldCache
shouldCache(method) == toUpperCase(method) = "GET"

\* a Cache.get that finds nothing
CacheGetNever(st, t, method, url) == Null

\* the value Cache.get returns
CacheGet(st, t, method, url) ==
    LET key == generateKey(method, url)
    IN  IF ~shouldCache(method) THEN Null
        ELSE IF key \notin DOMAIN st THEN Null
        ELSE IF t > st[key].expiresAt THEN Null
        ELSE st[key]

\* a Cache.get that leaves the expired entry where it is
CacheGetStoreKeeps(st, t, method, url) == st

\* the store Cache.get leaves behind: an expired entry is deleted
CacheGetStore(st, t, method, url) ==
    LET key == generateKey(method, url)
    IN  IF shouldCache(method) /\ key \in DOMAIN st /\ t > st[key].expiresAt
        THEN [k \in DOMAIN st \ {key} |-> st[k]]
        ELSE st

\* a Cache.set that keeps the entry the key already has
CacheSetKeepsFirst(st, t, method, url, body, headers, statusCode) ==
    LET key == generateKey(method, url)
        entry == [body |-> body, headers |-> headers, statusCode |-> statusCode,
                  cachedAt |-> t, expiresAt |-> t + ttlSeconds * MsPerSecond]
    IN  IF ~shouldCache(method) \/ key \in DOMAIN st THEN st
        ELSE [k \in DOMAIN st \cup {key} |-> IF k = key THEN entry ELSE st[k]]

\* a Cache.set that adds the TTL to the time in seconds as it is
CacheSetSeconds(st, t, method, url, body, headers, statusCode) ==
    LET key == generateKey(method, url)
        entry == [body |-> body, headers |-> headers, statusCode |-> statusCode,
                  cachedAt |-> t, expiresAt |-> t + ttlSeconds]
    IN  IF ~shouldCache(method) THEN st
        ELSE [k \in DOMAIN st \cup {key} |-> IF k = key THEN entry ELSE st[k]]

\* the store after Cache.set
CacheSet(st, t, method, url, body, headers, statusCode) ==
    LET key == generateKey(method, url)
        entry == [body |-> body, headers |-> headers, statusCode |-> statusCode,
                  cachedAt |-> t, expiresAt |-> t + ttlSeconds * MsPerSecond]
    IN  IF ~shouldCache(method) THEN st
        ELSE [k \in DOMAIN st \cup {key} |-> IF k = key THEN entry ELSE st[k]]

\* invalidate deleting every entry
CacheInvalidateAll(st, pattern) == [k \in {} |-> Null]

\* invalidate returning before it deletes anything
CacheInvalidateNothing(st, pattern) == st

\* invalidate comparing the key with the pattern instead of searching it
CacheInvalidateExact(st, pattern) ==
    [k \in {x \in DOMAIN st : x # pattern} |-> st[k]]

\* the store after Cache.invalidate
CacheInvalidate(st, pattern) ==
    [k \in {x \in DOMAIN st : ~Includes(x, pattern)} |-> st[k]]

\* the store after Cache.clear
CacheClear(st) == [k \in {} |-> Null]

----------------------------------------------------------------------------
(* LoadBalancer *)

\* getNextServer passing over the backend that cannot be reached
getNextServerHealthy(pool, idx) ==
    IF pool[idx + 1] = UnreachableServer
    THEN pool[((idx + 1) % Len(pool)) + 1]
    ELSE pool[idx + 1]

\* getNextServer reading the pool from its end
getNextServerReversed(pool, idx) == pool[Len(pool) - idx]

\* the value LoadBalancer.getNextServer returns
getNextServer(pool, idx) == pool[idx + 1]

\* getNextServer advancing by two
NextIndexSkip(pool, idx) == (idx + 2) % Len(pool)

\* getNextServer returning before it advances the cursor
NextIndexStuck(pool, idx) == idx

\* a cursor that moves backwards around the pool
NextIndexBack(pool, idx) == (idx + Len(pool) - 1) % Len(pool)

\* the currentIndex LoadBalancer.getNextServer leaves behind
NextIndex(pool, idx) == (idx + 1) % Len(pool)

\* a constructor that accepts every pool
constructorAccepts(config) == FALSE

\* whether the constructor of LoadBalancer throws
constructorThrows(config) == Len(config) = 0

\* DW_SERVERS: the variable of the environment, or the default when it is unset
\* or empty, split at the commas; a piece is one token or nothing
DW_SERVERS(env) ==
    LET pieces == Split(IF env = <<>> THEN <<"dw1", ",", "dw2">> ELSE env, ",")
    IN  [i \in 1..Len(pieces) |-> IF pieces[i] = <<>> THEN "" ELSE pieces[i][1]]

----------------------------------------------------------------------------
(* Headers: functions from lower-case header names to values *)

Merge(f, g) == [n \in DOMAIN f \cup DOMAIN g |-> IF n \in DOMAIN g THEN g[n] ELSE f[n]]

\* the headers addCORSHeaders sets on the response
CORSHeaders ==
    [n \in {"access-control-allow-origin", "access-control-allow-methods",
            "access-control-allow-headers", "access-control-max-age"} |->
        CASE n = "access-control-allow-origin" -> "*"
          [] n = "access-control-allow-methods" -> "GET, POST, PUT, DELETE, OPTIONS"
          [] n = "access-control-allow-headers" -> "Content-Type, Authorization"
          [] n = "access-control-max-age" -> "86400"]

NoHeaders == [n \in {} |-> ""]

JsonContentType == [n \in {"content-type"} |-> "application/json"]

\* the skipHeaders of handleRequest
responseSkipHeaders == {"host", "connection", "transfer-encoding"}

\* the pattern handleRequest passes to cache.invalidate
InvalidatePattern == <<"/", "employees">>

\* token.toLowerCase()
toLowerCase(t) ==
    CASE t = ".JS" -> ".js"
      [] t = ".CSS" -> ".css"
      [] OTHER -> t

\* the skipHeaders of forwardRequest
skipHeaders == {"host", "connection", "content-length", "transfer-encoding"}

\* a value of req.headers: a string, or for set-cookie an array of strings
StringValue(s) == [array |-> FALSE, value |-> s]

ArrayValue(l) == [array |-> TRUE, value |-> l]

\* if (value): an empty string is falsy, an array is truthy
Truthy(v) == v.array \/ v.value # ""

\* the headers of a request that gives none
NoClientHeaders == [n \in {} |-> StringValue("")]

\* req.headers, the Accept header apart
ClientHeaders(inp) == IF "headers" \in DOMAIN inp THEN inp.headers ELSE NoClientHeaders

\* the client's headers passed on as they are
forwardHeadersAll(method, h) ==
    [n \in {k \in DOMAIN h : Truthy(h[k])} |->
        IF h[n].array THEN h[n].value[1] ELSE h[n].value]

\* the headers forwardRequest gives axios
forwardHeaders(method, h) ==
    LET kept == {k \in DOMAIN h : toLowerCase(k) \notin skipHeaders /\ Truthy(h[k])}
        headers == [n \in kept |-> IF h[n].array THEN h[n].value[1] ELSE h[n].value]
    IN  IF method \in {"POST", "PUT"} /\ "content-type" \notin DOMAIN headers
        THEN Merge(headers, JsonContentType)
        ELSE headers

\* the nodeHeaders handleRequest builds from the backend's response headers
nodeHeaders(h) == [n \in DOMAIN h \ responseSkipHeaders |-> h[n]]

----------------------------------------------------------------------------
(* URLs *)

\* url.parse(u).pathname
pathname(u) == Split(u, "?")[1]

staticExtensions == {".ico", ".png", ".jpg", ".jpeg", ".gif", ".svg", ".css",
                     ".js", ".woff", ".woff2", ".ttf", ".eot"}

\* staticExtensions.some(ext => path.toLowerCase().endsWith(ext)), where path is
\* url.parse(req.url).path: the path with its query string
isStaticFile(u) == Len(u) > 0 /\ toLowerCase(u[Len(u)]) \in staticExtensions

isWrite(method) == method \in {"POST", "PUT", "DELETE"}

----------------------------------------------------------------------------
(* Backends (src/src/warehouse) *)

\* getResponseFormat: the format query parameter, then the Accept header
getResponseFormat(accept, u) ==
    LET parts == Split(u, "?")
        params == URLSearchParams(IF Len(parts) >= 2 THEN parts[2] ELSE <<>>)
        formatParam == ParamsGet(params, <<"format">>)
    IN  IF formatParam = <<"json">> THEN "json"
        ELSE IF formatParam = <<"xml">> THEN "xml"
        ELSE IF Includes(accept, <<"application/xml">>) \/ Includes(accept, <<"text/xml">>)
             THEN "xml"
        ELSE "json"

\* getContentType
getContentType(format) == IF format = "xml" THEN "application/xml" ELSE "application/json"

\* the headers of a backend's response
DwHeaders(format) ==
    [n \in {"content-type", "connection"} |->
        IF n = "content-type" THEN getContentType(format) ELSE "keep-alive"]

\* the resources of the backends' database; a path names one by its first segment
Resources == {"employees", "departments", "other"}

ResourceOf(u) ==
    LET p == pathname(u)
    IN  IF Len(p) >= 2 /\ p[2] \in Resources THEN p[2] ELSE "other"

\* the response of a backend that handles the request
DwSuccess(req, data) ==
    LET format == IF isWrite(req.method) THEN "json"
                  ELSE getResponseFormat(req.accept, req.url)
        r == ResourceOf(req.url)
    IN  [status |-> IF req.method = "POST" THEN 201 ELSE 200,
         headers |-> DwHeaders(format),
         data |-> [kind |-> "data", format |-> format, resource |-> r,
                   version |-> IF isWrite(req.method) THEN data[r] + 1 ELSE data[r],
                   shape |-> "compact"]]

\* the texts an error body comes in: JSON as JSON.stringify writes it, JSON
\* with other white space, text that is not JSON, and the empty string
ErrorShapes == {"compact", "spaced", "plain", "empty"}

\* the response of a backend that rejects the request
DwError(req, shape) ==
    [status |-> IF isWrite(req.method) THEN 400 ELSE 404,
     headers |-> DwHeaders("json"),
     data |-> [kind |-> "error", format |-> "json", resource |-> ResourceOf(req.url),
               version |-> 0, shape |-> shape]]

\* the response of a backend to a conditional GET of a document the client
\* already has: res.send answers 304 with no body
DwNotModified(req) ==
    [status |-> 304,
     headers |-> [n \in {"connection"} |-> "keep-alive"],
     data |-> [kind |-> "empty", format |-> "none", resource |-> ResourceOf(req.url),
               version |-> 0, shape |-> "empty"]]

\* the error axios throws when the backend cannot be reached
TransportError == [code |-> "ECONNREFUSED"]

----------------------------------------------------------------------------
(* Metrics *)

\* responseTimes that are never shortened
UpdatedResponseTimesUnbounded(rts, responseTime) == Append(rts, responseTime)

\* responseTimes after updateMetrics
UpdatedResponseTimes(rts, responseTime) ==
    LET pushed == Append(rts, responseTime)
    IN  IF Len(pushed) > MaxResponseTimes THEN Tail(pushed) ELSE pushed

RECURSIVE Sum(_)
\* responseTimes.reduce((a, b) => a + b, 0), summed by halves
Sum(s) ==
    IF s = <<>> THEN 0
    ELSE IF Len(s) = 1 THEN s[1]
    ELSE LET h == Len(s) \div 2
         IN  Sum(SubSeq(s, 1, h)) + Sum(SubSeq(s, h + 1, Len(s)))

\* updateMetrics writing back the total it read before another update
updateMetricsLost(m, rts, dwServer, responseTime, cacheHit) ==
    LET newRts == UpdatedResponseTimes(rts, responseTime)
        byServer == m.requestsByServer
    IN  [totalRequests |-> IF m.totalRequests >= 1 THEN m.totalRequests ELSE 1,
         cacheHits |-> IF cacheHit THEN m.cacheHits + 1 ELSE m.cacheHits,
         cacheMisses |-> IF cacheHit THEN m.cacheMisses ELSE m.cacheMisses + 1,
         requestsByServer |->
            [s \in DOMAIN byServer \cup {dwServer} |->
                IF s = dwServer
                THEN (IF s \in DOMAIN byServer THEN byServer[s] ELSE 0) + 1
                ELSE byServer[s]],
         averageResponseTime |-> [sum |-> Sum(newRts), count |-> Len(newRts)]]

\* updateMetrics counting every request as a miss
updateMetricsAllMisses(m, rts, dwServer, responseTime, cacheHit) ==
    LET newRts == UpdatedResponseTimes(rts, responseTime)
        byServer == m.requestsByServer
    IN  [totalRequests |-> m.totalRequests + 1,
         cacheHits |-> m.cacheHits,
         cacheMisses |-> m.cacheMisses + 1,
         requestsByServer |->
            [s \in DOMAIN byServer \cup {dwServer} |->
                IF s = dwServer
                THEN (IF s \in DOMAIN byServer THEN byServer[s] ELSE 0) + 1
                ELSE byServer[s]],
         averageResponseTime |-> [sum |-> Sum(newRts), count |-> Len(newRts)]]

\* updateMetrics counting by server the requests that went to a backend only
updateMetricsBackendsOnly(m, rts, dwServer, responseTime, cacheHit) ==
    LET newRts == UpdatedResponseTimes(rts, responseTime)
        byServer == m.requestsByServer
    IN  [totalRequests |-> m.totalRequests + 1,
         cacheHits |-> IF cacheHit THEN m.cacheHits + 1 ELSE m.cacheHits,
         cacheMisses |-> IF cacheHit THEN m.cacheMisses ELSE m.cacheMisses + 1,
         requestsByServer |->
            IF cacheHit THEN byServer
            ELSE [s \in DOMAIN byServer \cup {dwServer} |->
                    IF s = dwServer
                    THEN (IF s \in DOMAIN byServer THEN byServer[s] ELSE 0) + 1
                    ELSE byServer[s]],
         averageResponseTime |-> [sum |-> Sum(newRts), count |-> Len(newRts)]]

\* metrics after updateMetrics
updateMetrics(m, rts, dwServer, responseTime, cacheHit) ==
    LET newRts == UpdatedResponseTimes(rts, responseTime)
        byServer == m.requestsByServer
    IN  [totalRequests |-> m.totalRequests + 1,
         cacheHits |-> IF cacheHit THEN m.cacheHits + 1 ELSE m.cacheHits,
         cacheMisses |-> IF cacheHit THEN m.cacheMisses ELSE m.cacheMisses + 1,
         requestsByServer |->
            [s \in DOMAIN byServer \cup {dwServer} |->
                IF s = dwServer
                THEN (IF s \in DOMAIN byServer THEN byServer[s] ELSE 0) + 1
                ELSE byServer[s]],
         averageResponseTime |-> [sum |-> Sum(newRts), count |-> Len(newRts)]]

----------------------------------------------------------------------------
(* The state after construction *)

\* the state of a proxy that has not yet received a request
Fresh ==
    /\ call = Null
    /\ currentIndex = 0
    /\ store = [k \in {} |-> Null]
    /\ metrics = [totalRequests |-> 0, cacheHits |-> 0, cacheMisses |-> 0,
                  requestsByServer |-> [s \in {} |-> 0],
                  averageResponseTime |-> [sum |-> 0, count |-> 0]]
    /\ responseTimes = <<>>
    /\ now = 0
    /\ db = [r \in Resources |-> 0]
    /\ reqs = <<>>

Init == proc = "listening" /\ servers \in Pools /\ Fresh

----------------------------------------------------------------------------
(* Requests.  pc is where the request's handler stands: "forward" while the  *)
(* axios call is with the backend, "reply" once the backend has answered or  *)
(* failed and the handler has not yet resumed, "done" once it has returned.  *)

NewRequest(inp, pc, server, res, hit) ==
    [method |-> inp.method, url |-> inp.url, accept |-> inp.accept,
     headers |-> ClientHeaders(inp), sent |-> Null,
     pc |-> pc, startTime |-> now, server |-> server, dw |-> Null,
     res |-> res, hit |-> hit]

Response(status, headers, body) == [status |-> status, headers |-> headers, body |-> body]

IsIndex(inp) == pathname(inp.url) \in {<<"/">>, <<"/", "index.html">>}

IsPreflight(inp) == ~IsIndex(inp) /\ inp.method = "OPTIONS"

IsMetrics(inp) ==
    /\ ~IsIndex(inp) /\ ~IsPreflight(inp)
    /\ pathname(inp.url) = <<"/", "metrics">> /\ inp.method = "GET"

IsStatic(inp) ==
    /\ ~IsIndex(inp) /\ ~IsPreflight(inp) /\ ~IsMetrics(inp)
    /\ isStaticFile(inp.url) /\ inp.method = "GET"

IsDispatched(inp) == ~IsIndex(inp) /\ ~IsPreflight(inp) /\ ~IsMetrics(inp) /\ ~IsStatic(inp)

\* the response serveStaticFile writes
StaticResponse(found) ==
    IF found
    THEN Response(200, Merge(CORSHeaders,
                     [n \in {"content-type", "cache-control"} |->
                        IF n = "content-type" THEN "file" ELSE "public, max-age=3600"]),
                  [kind |-> "file"])
    ELSE Response(404, Merge(CORSHeaders, JsonContentType), [kind |-> "notfound"])

\* handleRequestWithMetrics: "/" and "/index.html"; handleRequest: static files
ServeStatic(inp, found) ==
    /\ proc = "listening"
    /\ Len(reqs) < MaxRequests
    /\ IsIndex(inp) \/ IsStatic(inp)
    /\ reqs' = Append(reqs, NewRequest(inp, "done", None, StaticResponse(found), FALSE))
    /\ UNCHANGED <<proc, call, servers, currentIndex, store, metrics, responseTimes, now, db>>

\* handleRequestWithMetrics: CORS preflight
Preflight(inp) ==
    /\ proc = "listening"
    /\ Len(reqs) < MaxRequests
    /\ IsPreflight(inp)
    /\ reqs' = Append(reqs, NewRequest(inp, "done", None,
                                       Response(200, CORSHeaders, [kind |-> "empty"]), FALSE))
    /\ UNCHANGED <<proc, call, servers, currentIndex, store, metrics, responseTimes, now, db>>

\* a /metrics route that counts itself as a request
ServeMetricsCounted(inp) ==
    /\ proc = "listening"
    /\ Len(reqs) < MaxRequests
    /\ IsMetrics(inp)
    /\ reqs' = Append(reqs, NewRequest(inp, "done", None,
                  Response(200, JsonContentType,
                           [kind |-> "metrics", metrics |-> metrics,
                            size |-> Cardinality(DOMAIN store),
                            servers |-> servers, currentIndex |-> currentIndex]),
                  FALSE))
    /\ metrics' = updateMetrics(metrics, responseTimes, "metrics", 0, FALSE)
    /\ responseTimes' = UpdatedResponseTimes(responseTimes, 0)
    /\ UNCHANGED <<proc, call, servers, currentIndex, store, now, db>>

\* handleRequestWithMetrics: GET /metrics
ServeMetrics(inp) ==
    /\ proc = "listening"
    /\ Len(reqs) < MaxRequests
    /\ IsMetrics(inp)
    /\ reqs' = Append(reqs, NewRequest(inp, "done", None,
                  Response(200, JsonContentType,
                           [kind |-> "metrics", metrics |-> metrics,
                            size |-> Cardinality(DOMAIN store),
                            servers |-> servers, currentIndex |-> currentIndex]),
                  FALSE))
    /\ UNCHANGED <<proc, call, servers, currentIndex, store, metrics, responseTimes, now, db>>

\* a cache hit that selects a backend all the same
CacheHitAdvances(inp) ==
    /\ proc = "listening"
    /\ IsDispatched(inp)
    /\ inp.method = "GET"
    /\ LET cached == CacheGet(store, now, inp.method, inp.url)
       IN  /\ cached # Null
           /\ reqs' = Append(reqs, NewRequest(inp, "done", None,
                         Response(cached.statusCode, cached.headers, cached.body), TRUE))
           /\ metrics' = updateMetrics(metrics, responseTimes, "cache", now - now, TRUE)
           /\ responseTimes' = UpdatedResponseTimes(responseTimes, now - now)
    /\ currentIndex' = NextIndex(servers, currentIndex)
    /\ UNCHANGED <<proc, call, servers, store, now, db>>

\* handleRequest: a GET that cache.get answers
CacheHit(inp) ==
    /\ proc = "listening"
    /\ IsDispatched(inp)
    /\ inp.method = "GET"
    /\ LET cached == CacheGet(store, now, inp.method, inp.url)
       IN  /\ cached # Null
           /\ reqs' = Append(reqs, NewRequest(inp, "done", None,
                         Response(cached.statusCode, cached.headers, cached.body), TRUE))
           /\ metrics' = updateMetrics(metrics, responseTimes, "cache", now - now, TRUE)
           /\ responseTimes' = UpdatedResponseTimes(responseTimes, now - now)
    /\ UNCHANGED <<proc, call, servers, currentIndex, store, now, db>>

ServeFromCache(inp) == Len(reqs) < MaxRequests /\ CacheHit(inp)

\* a dispatch that invalidates the entries of the resource written to
DispatchInvalidatesPath(inp) ==
    /\ proc = "listening"
    /\ IsDispatched(inp)
    /\ inp.method = "GET" => CacheGet(store, now, inp.method, inp.url) = Null
    /\ LET probed == IF inp.method = "GET"
                     THEN CacheGetStore(store, now, inp.method, inp.url)
                     ELSE store
       IN  store' = IF isWrite(inp.method)
                    THEN CacheInvalidate(probed, SubSeq(pathname(inp.url), 1, 2))
                    ELSE probed
    /\ reqs' = Append(reqs, [NewRequest(inp, "forward", getNextServer(servers, currentIndex),
                                        Null, FALSE)
                                EXCEPT !.sent = forwardHeaders(inp.method, ClientHeaders(inp))])
    /\ currentIndex' = NextIndex(servers, currentIndex)
    /\ UNCHANGED <<proc, call, servers, metrics, responseTimes, now, db>>

\* a dispatch that joins a GET to the same GET still with its backend
DispatchCoalesced(inp) ==
    /\ proc = "listening"
    /\ IsDispatched(inp)
    /\ inp.method = "GET" => CacheGet(store, now, inp.method, inp.url) = Null
    /\ LET probed == IF inp.method = "GET"
                     THEN CacheGetStore(store, now, inp.method, inp.url)
                     ELSE store
       IN  store' = IF isWrite(inp.method)
                    THEN CacheInvalidate(probed, InvalidatePattern)
                    ELSE probed
    /\ LET same == {i \in 1..Len(reqs) :
                       /\ reqs[i].pc = "forward" /\ reqs[i].method = "GET"
                       /\ inp.method = "GET" /\ reqs[i].url = inp.url}
       IN  IF same = {}
           THEN /\ reqs' = Append(reqs, [NewRequest(inp, "forward",
                                                    getNextServer(servers, currentIndex),
                                                    Null, FALSE)
                                         EXCEPT !.sent = forwardHeaders(inp.method,
                                                                        ClientHeaders(inp))])
                /\ currentIndex' = NextIndex(servers, currentIndex)
           ELSE /\ reqs' = Append(reqs, [NewRequest(inp, "forward",
                                                    reqs[CHOOSE i \in same : TRUE].server,
                                                    Null, FALSE)
                                         EXCEPT !.sent = forwardHeaders(inp.method,
                                                                        ClientHeaders(inp))])
                /\ currentIndex' = currentIndex
    /\ UNCHANGED <<proc, call, servers, metrics, responseTimes, now, db>>

\* handleRequest up to the await of forwardRequest: cache miss, invalidation on
\* a write, and forwardRequest up to its axios call
Dispatch(inp) ==
    /\ proc = "listening"
    /\ IsDispatched(inp)
    /\ inp.method = "GET" => CacheGet(store, now, inp.method, inp.url) = Null
    /\ LET probed == IF inp.method = "GET"
                     THEN CacheGetStore(store, now, inp.method, inp.url)
                     ELSE store
       IN  store' = IF isWrite(inp.method)
                    THEN CacheInvalidate(probed, InvalidatePattern)
                    ELSE probed
    /\ reqs' = Append(reqs, [NewRequest(inp, "forward", getNextServer(servers, currentIndex),
                                        Null, FALSE)
                                EXCEPT !.sent = forwardHeaders(inp.method, ClientHeaders(inp))])
    /\ currentIndex' = NextIndex(servers, currentIndex)
    /\ UNCHANGED <<proc, call, servers, metrics, responseTimes, now, db>>

Forward(inp) == Len(reqs) < MaxRequests /\ Dispatch(inp)

----------------------------------------------------------------------------
(* The backend's side of a forwarded request *)

BackendSucceeds(i) ==
    /\ i \in 1..Len(reqs)
    /\ reqs[i].pc = "forward"
    /\ reqs' = [reqs EXCEPT ![i].pc = "reply", ![i].dw = DwSuccess(reqs[i], db)]
    /\ db' = IF isWrite(reqs[i].method)
             THEN [db EXCEPT ![ResourceOf(reqs[i].url)] = @ + 1]
             ELSE db
    /\ UNCHANGED <<proc, call, servers, currentIndex, store, metrics, responseTimes, now>>

BackendRejects(i, shape) ==
    /\ i \in 1..Len(reqs)
    /\ reqs[i].pc = "forward"
    /\ reqs' = [reqs EXCEPT ![i].pc = "reply", ![i].dw = DwError(reqs[i], shape)]
    /\ UNCHANGED <<proc, call, servers, currentIndex, store, metrics, responseTimes, now, db>>

BackendNotModified(i) ==
    /\ i \in 1..Len(reqs)
    /\ reqs[i].pc = "forward"
    /\ reqs[i].method = "GET"
    /\ reqs' = [reqs EXCEPT ![i].pc = "reply", ![i].dw = DwNotModified(reqs[i])]
    /\ UNCHANGED <<proc, call, servers, currentIndex, store, metrics, responseTimes, now, db>>

BackendUnreachable(i) ==
    /\ i \in 1..Len(reqs)
    /\ reqs[i].pc = "forward"
    /\ reqs' = [reqs EXCEPT ![i].pc = "reply", ![i].dw = TransportError]
    /\ UNCHANGED <<proc, call, servers, currentIndex, store, metrics, responseTimes, now, db>>

----------------------------------------------------------------------------
(* handleRequest after the await of forwardRequest *)

\* a handler without the catch block: the rejection ends the process
CompleteFailureCrash(i) ==
    /\ i \in 1..Len(reqs)
    /\ reqs[i].pc = "reply"
    /\ reqs[i].dw = TransportError
    /\ reqs' = [reqs EXCEPT ![i].pc = "done", ![i].res = Response(500, NoHeaders, [kind |-> "reset"])]
    /\ proc' = "crashed"
    /\ UNCHANGED <<call, servers, currentIndex, store, metrics, responseTimes, now, db>>

\* a catch block that sends the request to the next backend
CompleteFailureRetry(i) ==
    /\ i \in 1..Len(reqs)
    /\ reqs[i].pc = "reply"
    /\ reqs[i].dw = TransportError
    /\ reqs' = [reqs EXCEPT ![i].pc = "forward", ![i].dw = Null,
                            ![i].server = getNextServer(servers, currentIndex)]
    /\ currentIndex' = NextIndex(servers, currentIndex)
    /\ UNCHANGED <<proc, call, servers, store, metrics, responseTimes, now, db>>

\* a catch block that counts the failed request
CompleteFailureCounted(i) ==
    /\ i \in 1..Len(reqs)
    /\ reqs[i].pc = "reply"
    /\ reqs[i].dw = TransportError
    /\ reqs' = [reqs EXCEPT ![i].pc = "done",
                            ![i].res = Response(500, Merge(CORSHeaders, JsonContentType),
                                                [kind |-> "internal"])]
    /\ metrics' = updateMetrics(metrics, responseTimes, reqs[i].server,
                                now - reqs[i].startTime, FALSE)
    /\ responseTimes' = UpdatedResponseTimes(responseTimes, now - reqs[i].startTime)
    /\ UNCHANGED <<proc, call, servers, currentIndex, store, now, db>>

\* the catch block: the axios call threw
CompleteFailure(i) ==
    /\ i \in 1..Len(reqs)
    /\ reqs[i].pc = "reply"
    /\ reqs[i].dw = TransportError
    /\ reqs' = [reqs EXCEPT ![i].pc = "done",
                            ![i].res = Response(500, Merge(CORSHeaders, JsonContentType),
                                                [kind |-> "internal"])]
    /\ UNCHANGED <<proc, call, servers, currentIndex, store, metrics, responseTimes, now, db>>

\* the body of '{"error":"Request failed"}'
FallbackBody == [kind |-> "fallback"]

\* the body the branch dwResponse.status >= 400 sends: JSON.stringify(JSON.parse(
\* data)) when data parses, data itself when it does not, and the fallback when
\* the result is the empty string
errorBody(data) ==
    IF data.shape = "spaced" THEN [data EXCEPT !.shape = "compact"]
    ELSE IF data.shape = "empty" THEN FallbackBody
    ELSE data

\* the branch dwResponse.status >= 400
CompleteError(i) ==
    /\ i \in 1..Len(reqs)
    /\ reqs[i].pc = "reply"
    /\ reqs[i].dw # TransportError
    /\ reqs[i].dw.status >= 400
    /\ reqs' = [reqs EXCEPT ![i].pc = "done",
                            ![i].res = Response(reqs[i].dw.status,
                                           Merge(CORSHeaders,
                                                 Merge(nodeHeaders(reqs[i].dw.headers),
                                                       JsonContentType)),
                                           errorBody(reqs[i].dw.data))]
    /\ UNCHANGED <<proc, call, servers, currentIndex, store, metrics, responseTimes, now, db>>

\* the store after the cache.set statement of a handler that stores under the
\* request's own method whatever a backend answered with status 200
CacheResponseAnyMethod(st, t, r, hdrs) ==
    IF r.dw.status = 200
    THEN [k \in DOMAIN st \cup {generateKey(r.method, r.url)} |->
            IF k = generateKey(r.method, r.url)
            THEN [body |-> r.dw.data, headers |-> hdrs, statusCode |-> r.dw.status,
                  cachedAt |-> t, expiresAt |-> t + ttlSeconds * MsPerSecond]
            ELSE st[k]]
    ELSE st

\* the store after the cache.set statement of a handler that does not look at
\* the status
CacheResponseAnyStatus(st, t, r, hdrs) ==
    IF r.method = "GET"
    THEN CacheSet(st, t, r.method, r.url, r.dw.data, hdrs, r.dw.status)
    ELSE st

\* the store after `if (method === 'GET' && dwResponse.status === 200) cache.set(...)`
CacheResponse(st, t, r, hdrs) ==
    IF r.method = "GET" /\ r.dw.status = 200
    THEN CacheSet(st, t, r.method, r.url, r.dw.data, hdrs, r.dw.status)
    ELSE st

\* the rest of the try block: cache.set, the response, updateMetrics
CompleteSuccess(i) ==
    /\ i \in 1..Len(reqs)
    /\ reqs[i].pc = "reply"
    /\ reqs[i].dw # TransportError
    /\ reqs[i].dw.status < 400
    /\ LET r == reqs[i]
           hdrs == nodeHeaders(r.dw.headers)
           responseTime == now - r.startTime
       IN  /\ store' = CacheResponse(store, now, r, hdrs)
           /\ reqs' = [reqs EXCEPT ![i].pc = "done",
                                   ![i].res = Response(r.dw.status,
                                                       Merge(CORSHeaders, hdrs), r.dw.data)]
           /\ metrics' = updateMetrics(metrics, responseTimes, r.server, responseTime, FALSE)
           /\ responseTimes' = UpdatedResponseTimes(responseTimes, responseTime)
    /\ UNCHANGED <<proc, call, servers, currentIndex, now, db>>

----------------------------------------------------------------------------
(* The clock *)

Tick(d) ==
    /\ (now + d) % TTL <= MaxDrift
    /\ (now + d) \div TTL <= MaxPeriods
    /\ now' = now + d
    /\ UNCHANGED <<proc, call, servers, currentIndex, store, metrics, responseTimes, db, reqs>>

TickSteps == {1, TTL}

----------------------------------------------------------------------------
(* Inputs *)

Input(method, url) == [method |-> method, url |-> url, accept |-> <<>>]

EmployeesJson == <<"/", "employees", "?", "format", "=", "json">>
PageJson == <<"/", "employees", "?", "format", "=", "json", "&",
              "limit", "=", "5", "&", "offset", "=", "0">>
PageJsonSwapped == <<"/", "employees", "?", "offset", "=", "0", "&",
                     "limit", "=", "5", "&", "format", "=", "json">>
PageXml == <<"/", "employees", "?", "format", "=", "xml", "&",
             "limit", "=", "5", "&", "offset", "=", "0">>
Employees == <<"/", "employees">>
EmployeesOne == <<"/", "employees", "/", "1">>
Departments == <<"/", "departments">>
MetricsUrl == <<"/", "metrics">>
AppJs == <<"/", "app", ".js">>
AppJsVersioned == <<"/", "app", ".js", "?", "v", "=", "1">>
Root == <<"/">>
EmployeesSlash == <<"/", "employees", "/">>
EmployeesSlashJson == <<"/", "employees", "/", "?", "format", "=", "json">>
EmployeesXml == <<"/", "employees", "?", "format", "=", "xml">>
EmployeesFormatEmpty == <<"/", "employees", "?", "format", "=">>

\* the requests of the concurrent specification: one of each class of request
Inputs ==
    {Input("GET", u) : u \in {EmployeesJson, MetricsUrl, AppJs}}
    \cup {Input("POST", Employees), Input("OPTIONS", Employees)}

\* the reads of the sequential read specification: one page of one resource
\* as json, as json with its parameters in another order, and as xml
ReadInputs == {Input("GET", u) : u \in {PageJson, PageJsonSwapped, PageXml}}

\* the requests of the sequential write specification: reads and writes of two
\* resource families
WriteInputs ==
    {Input("GET", EmployeesJson), Input("GET", Departments),
     Input("POST", Employees), Input("PUT", EmployeesOne),
     Input("DELETE", EmployeesOne), Input("POST", Departments)}

\* requests are received while others wait for their backends, all within one
\* reading of the clock
Next ==
    \/ \E inp \in Inputs, found \in BOOLEAN : ServeStatic(inp, found)
    \/ \E inp \in Inputs : Preflight(inp)
    \/ \E inp \in Inputs : ServeMetrics(inp)
    \/ \E inp \in Inputs : ServeFromCache(inp)
    \/ \E inp \in Inputs : Forward(inp)
    \/ \E i \in 1..MaxRequests : BackendSucceeds(i)
    \/ \E i \in 1..MaxRequests, shape \in {"compact", "empty"} : BackendRejects(i, shape)
    \/ \E i \in 1..MaxRequests : BackendUnreachable(i)
    \/ \E i \in 1..MaxRequests : CompleteFailure(i)
    \/ \E i \in 1..MaxRequests : CompleteError(i)
    \/ \E i \in 1..MaxRequests : CompleteSuccess(i)

Spec == Init /\ [][Next]_vars

\* the event loop resumes a handler whose axios call has settled; nothing
\* obliges a backend to answer
LiveSpec ==
    /\ Spec
    /\ \A i \in 1..MaxRequests :
          /\ WF_vars(CompleteSuccess(i))
          /\ WF_vars(CompleteError(i))
          /\ WF_vars(CompleteFailure(i))

AllDone == \A i \in 1..Len(reqs) : reqs[i].pc = "done"

SeqServeFromCache(inp) == AllDone /\ ServeFromCache(inp)

SeqForward(inp) == AllDone /\ Forward(inp)

SeqTick(d) == AllDone /\ Tick(d)

\* a client that sends each read after it has the response to the one before,
\* and waits between them; the backends are reachable
ReadNext ==
    \/ \E inp \in ReadInputs : SeqServeFromCache(inp)
    \/ \E inp \in ReadInputs : SeqForward(inp)
    \/ \E i \in 1..MaxRequests : BackendSucceeds(i)
    \/ \E i \in 1..MaxRequests : BackendRejects(i, "compact")
    \/ \E i \in 1..MaxRequests : CompleteError(i)
    \/ \E i \in 1..MaxRequests : CompleteSuccess(i)
    \/ \E d \in TickSteps : SeqTick(d)

ReadInit == Init /\ servers = DefaultPool

ReadSpec == ReadInit /\ [][ReadNext]_vars

\* a client that sends each read or write after it has the response to the one
\* before
WriteNext ==
    \/ \E inp \in WriteInputs : SeqServeFromCache(inp)
    \/ \E inp \in WriteInputs : SeqForward(inp)
    \/ \E i \in 1..MaxRequests : BackendSucceeds(i)
    \/ \E i \in 1..MaxRequests : BackendRejects(i, "compact")
    \/ \E i \in 1..MaxRequests : BackendNotModified(i)
    \/ \E i \in 1..MaxRequests : BackendUnreachable(i)
    \/ \E i \in 1..MaxRequests : CompleteFailure(i)
    \/ \E i \in 1..MaxRequests : CompleteError(i)
    \/ \E i \in 1..MaxRequests : CompleteSuccess(i)

WriteSpec == Init /\ [][WriteNext]_vars

\* a call of the Cache's interface, the time of the call, what it returned and
\* what it logged
Call(op, method, url, pattern, body, ret, log) ==
    [op |-> op, method |-> method, url |-> url, pattern |-> pattern, body |-> body,
     at |-> now, ret |-> ret, log |-> log]

\* cache.get(method, url)
CallGet(method, url) ==
    LET ret == CacheGet(store, now, method, url)
        key == generateKey(method, url)
        log == IF ret # Null THEN "Cache hit"
               ELSE IF shouldCache(method) /\ key \in DOMAIN store THEN "Cache entry expired"
               ELSE "none"
    IN  /\ call' = Call("get", method, url, <<>>, "", ret, log)
        /\ store' = CacheGetStore(store, now, method, url)
        /\ UNCHANGED <<proc, servers, currentIndex, metrics, responseTimes, now, db, reqs>>

\* cache.set(method, url, body, headers, statusCode)
CallSet(method, url, body) ==
    /\ call' = Call("set", method, url, <<>>, body, Null,
                    IF shouldCache(method) THEN "Cache entry stored" ELSE "none")
    /\ store' = CacheSet(store, now, method, url, body, JsonContentType, 200)
    /\ UNCHANGED <<proc, servers, currentIndex, metrics, responseTimes, now, db, reqs>>

\* cache.invalidate(pattern)
CallInvalidate(pattern) ==
    /\ call' = Call("invalidate", "", <<>>, pattern, "", Null,
                    Cardinality({k \in DOMAIN store : Includes(k, pattern)}))
    /\ store' = CacheInvalidate(store, pattern)
    /\ UNCHANGED <<proc, servers, currentIndex, metrics, responseTimes, now, db, reqs>>

\* cache.clear()
CallClear ==
    /\ call' = Call("clear", "", <<>>, <<>>, "", Null, Cardinality(DOMAIN store))
    /\ store' = CacheClear(store)
    /\ UNCHANGED <<proc, servers, currentIndex, metrics, responseTimes, now, db, reqs>>

CacheMethods == {"GET", "get", "POST"}

\* /employees and /employees?format=json have one key, /departments another
CacheUrls == {EmployeesJson, Employees, Departments}

CacheBodies == {"a", "b"}

\* a pattern some keys contain, another, one every key contains, one none does
CachePatterns == {InvalidatePattern, <<"/", "departments">>, <<"GET", ":">>, <<"xml">>}

\* the Cache called through its interface, at the times of the clock
CacheNext ==
    \/ \E method \in CacheMethods, u \in CacheUrls : CallGet(method, u)
    \/ \E method \in CacheMethods, u \in CacheUrls, body \in CacheBodies :
          CallSet(method, u, body)
    \/ \E pattern \in CachePatterns : CallInvalidate(pattern)
    \/ CallClear
    \/ \E d \in TickSteps : Tick(d)

CacheSpec == ReadInit /\ [][CacheNext]_vars

InputAccept(method, url, accept) == [method |-> method, url |-> url, accept |-> accept]

\* the Accept headers of the negotiation specification: none, json, xml
AcceptHeaders == {<<>>, <<"application/json">>, <<"application/xml">>}

\* the reads of the negotiation specification: one URL without a format
\* parameter and one with, under each Accept header
AcceptInputs ==
    {InputAccept("GET", u, accept) : u \in {Employees, EmployeesJson}, accept \in AcceptHeaders}

\* a client that sends each read after it has the response to the one before,
\* choosing the format by the Accept header or by the parameter
AcceptNext ==
    \/ \E inp \in AcceptInputs : SeqServeFromCache(inp)
    \/ \E inp \in AcceptInputs : SeqForward(inp)
    \/ \E i \in 1..MaxRequests : BackendSucceeds(i)
    \/ \E i \in 1..MaxRequests : BackendRejects(i, "compact")
    \/ \E i \in 1..MaxRequests : CompleteError(i)
    \/ \E i \in 1..MaxRequests : CompleteSuccess(i)

AcceptSpec == ReadInit /\ [][AcceptNext]_vars

\* the reads of the key specification: one resource with and without a
\* trailing slash, and with the format absent, empty, json and xml
KeyInputs ==
    {Input("GET", u) : u \in {Employees, EmployeesSlash, EmployeesJson, EmployeesSlashJson,
                               EmployeesXml, EmployeesFormatEmpty}}

\* a client that sends each read after it has the response to the one before,
\* all within the TTL
KeyNext ==
    \/ \E inp \in KeyInputs : SeqServeFromCache(inp)
    \/ \E inp \in KeyInputs : SeqForward(inp)
    \/ \E i \in 1..MaxRequests : BackendSucceeds(i)
    \/ \E i \in 1..MaxRequests : BackendRejects(i, "compact")
    \/ \E i \in 1..MaxRequests : CompleteError(i)
    \/ \E i \in 1..MaxRequests : CompleteSuccess(i)

KeySpec == ReadInit /\ [][KeyNext]_vars

\* the values a client gives each header, when it gives it: the four headers
\* of the connection, a content type and a credential that may be empty, and
\* set-cookie, which Node keeps as an array
HeaderValues ==
    [n \in {"host", "connection", "content-length", "transfer-encoding"} |-> {StringValue("v")}]
    @@ [n \in {"content-type"} |-> {StringValue(""), StringValue("text/xml")}]
    @@ [n \in {"authorization"} |-> {StringValue(""), StringValue("tok")}]
    @@ [n \in {"set-cookie"} |-> {ArrayValue(<<"a", "b">>)}]

\* req.headers: some of the headers, each with one of its values
HeaderSets ==
    UNION {{h \in [names -> UNION {HeaderValues[n] : n \in names}] :
              \A n \in names : h[n] \in HeaderValues[n]} :
           names \in SUBSET DOMAIN HeaderValues}

\* the requests of the header specification
HeaderInputs ==
    {[method |-> method, url |-> Employees, accept |-> <<>>, headers |-> h] :
        method \in {"GET", "POST", "PUT"}, h \in HeaderSets}

\* the first request a proxy receives
FirstForward(inp) == reqs = <<>> /\ Dispatch(inp)

\* one request with each set of headers, forwarded to a backend that answers
HeaderNext ==
    \/ \E inp \in HeaderInputs : FirstForward(inp)
    \/ BackendSucceeds(1)
    \/ CompleteSuccess(1)

HeaderSpec == ReadInit /\ [][HeaderNext]_vars

\* the requests of the failure specification: reads of two resources and a
\* write
FailInputs ==
    {Input("GET", EmployeesJson), Input("GET", Departments), Input("POST", Departments)}

\* a client that sends each request after it has the response to the one
\* before, and waits between them; a backend answers or cannot be reached
FailNext ==
    \/ \E inp \in FailInputs : SeqServeFromCache(inp)
    \/ \E inp \in FailInputs : SeqForward(inp)
    \/ \E i \in 1..MaxRequests : BackendSucceeds(i)
    \/ \E i \in 1..MaxRequests : BackendUnreachable(i)
    \/ \E i \in 1..MaxRequests : CompleteFailure(i)
    \/ \E i \in 1..MaxRequests : CompleteSuccess(i)
    \/ \E d \in TickSteps : SeqTick(d)

FailSpec == ReadInit /\ [][FailNext]_vars

\* the read of the window specification
WindowInputs == {Input("GET", EmployeesJson)}

WindowServeFromCache(inp) == Len(reqs) < MaxWindowRequests /\ AllDone /\ CacheHit(inp)

WindowForward(inp) == Len(reqs) < MaxWindowRequests /\ AllDone /\ Dispatch(inp)

\* time passes while a request is with its backend
WindowTick(d) == ~AllDone /\ Tick(d)

\* a client that sends one read more than a hundred times, each after it has
\* the response to the one before; the backend takes its time
WindowNext ==
    \/ \E inp \in WindowInputs : WindowServeFromCache(inp)
    \/ \E inp \in WindowInputs : WindowForward(inp)
    \/ \E i \in 1..MaxWindowRequests : BackendSucceeds(i)
    \/ \E i \in 1..MaxWindowRequests : CompleteSuccess(i)
    \/ \E d \in TickSteps : WindowTick(d)

WindowSpec == ReadInit /\ [][WindowNext]_vars

\* the values of the variable DW_SERVERS: unset, one backend, three backends,
\* a lone comma
EnvValues == {<<>>, <<"dw1">>, <<"dw1", ",", "dw2", ",", "dw3">>, <<",">>}

\* the pools the LoadBalancer is constructed with: those proxyServer.ts derives
\* from the environment, and the empty list, which LoadBalancerConfig admits
StartConfigs == {DW_SERVERS(env) : env \in EnvValues} \cup {<<>>}

\* the module body of proxyServer.ts: new LoadBalancer(config), then
\* server.listen; a constructor that throws ends the process
Start(config) ==
    /\ proc = "starting"
    /\ servers' = config
    /\ proc' = IF constructorThrows(config) THEN "crashed" ELSE "listening"
    /\ UNCHANGED <<call, currentIndex, store, metrics, responseTimes, now, db, reqs>>

StartInputs == {Input("GET", EmployeesJson), Input("POST", Employees)}

\* the process from its start, then a client that sends each request after it
\* has the response to the one before
StartNext ==
    \/ \E config \in StartConfigs : Start(config)
    \/ \E inp \in StartInputs : SeqServeFromCache(inp)
    \/ \E inp \in StartInputs : SeqForward(inp)
    \/ \E i \in 1..MaxRequests : BackendSucceeds(i)
    \/ \E i \in 1..MaxRequests : BackendUnreachable(i)
    \/ \E i \in 1..MaxRequests : CompleteFailure(i)
    \/ \E i \in 1..MaxRequests : CompleteSuccess(i)

StartInit == proc = "starting" /\ servers = <<>> /\ Fresh

StartSpec == StartInit /\ [][StartNext]_vars

\* the requests of the routing specification: the routes of
\* handleRequestWithMetrics and handleRequest, by method and path
RouteInputs ==
    {Input("OPTIONS", u) : u \in {Root, Employees, AppJs}}
    \cup {Input("GET", u) : u \in {Root, MetricsUrl, AppJs, AppJsVersioned, EmployeesJson}}
    \cup {Input("POST", AppJs)}

SeqServeStatic(inp, found) == AllDone /\ ServeStatic(inp, found)

SeqPreflight(inp) == AllDone /\ Preflight(inp)

SeqServeMetrics(inp) == AllDone /\ ServeMetrics(inp)

\* a client that sends each request after it has the response to the one
\* before, over every route of the proxy; the backends are reachable
RouteNext ==
    \/ \E inp \in RouteInputs, found \in BOOLEAN : SeqServeStatic(inp, found)
    \/ \E inp \in RouteInputs : SeqPreflight(inp)
    \/ \E inp \in RouteInputs : SeqServeMetrics(inp)
    \/ \E inp \in RouteInputs : SeqServeFromCache(inp)
    \/ \E inp \in RouteInputs : SeqForward(inp)
    \/ \E i \in 1..MaxRequests : BackendSucceeds(i)
    \/ \E i \in 1..MaxRequests : BackendRejects(i, "compact")
    \/ \E i \in 1..MaxRequests : CompleteError(i)
    \/ \E i \in 1..MaxRequests : CompleteSuccess(i)

RouteSpec == Init /\ [][RouteNext]_vars

\* the requests of the specification of a failing backend
CycleInputs == {Input("GET", Departments), Input("POST", Employees)}

CycleServeFromCache(inp) == Len(reqs) < MaxCycleRequests /\ AllDone /\ CacheHit(inp)

CycleForward(inp) == Len(reqs) < MaxCycleRequests /\ AllDone /\ Dispatch(inp)

\* a backend that can be reached handles the request
ReachableSucceeds(i) ==
    /\ i \in 1..Len(reqs)
    /\ reqs[i].server # UnreachableServer
    /\ BackendSucceeds(i)

\* a backend that can be reached rejects the request
ReachableRejects(i) ==
    /\ i \in 1..Len(reqs)
    /\ reqs[i].server # UnreachableServer
    /\ BackendRejects(i, "compact")

\* the request went to the backend that cannot be reached
ServerDown(i) ==
    /\ i \in 1..Len(reqs)
    /\ reqs[i].server = UnreachableServer
    /\ BackendUnreachable(i)

\* a client that sends each request after it has the response to the one
\* before, to a proxy with three backends of which one cannot be reached
CycleNext ==
    \/ \E inp \in CycleInputs : CycleServeFromCache(inp)
    \/ \E inp \in CycleInputs : CycleForward(inp)
    \/ \E i \in 1..MaxCycleRequests : ReachableSucceeds(i)
    \/ \E i \in 1..MaxCycleRequests : ReachableRejects(i)
    \/ \E i \in 1..MaxCycleRequests : ServerDown(i)
    \/ \E i \in 1..MaxCycleRequests : CompleteFailure(i)
    \/ \E i \in 1..MaxCycleRequests : CompleteError(i)
    \/ \E i \in 1..MaxCycleRequests : CompleteSuccess(i)

CycleInit == proc = "listening" /\ servers \in PoolsOfThree /\ Fresh

CycleSpec == CycleInit /\ [][CycleNext]_vars

TypeOK ==
    /\ currentIndex \in 0..(Len(servers) - 1)
    /\ Len(reqs) <= MaxCycleRequests
    /\ now \in Nat

----------------------------------------------------------------------------
(* Properties *)

N == Len(servers)

\* request i had a backend selected for it
Selected(i) == reqs[i].server # None

\* the number of selections up to and including that of request i
Rank(i) == Cardinality({j \in 1..i : Selected(j)})

NumSelected == Cardinality({j \in 1..Len(reqs) : Selected(j)})

\* the pool index of the backend selected for request i
PickedIndex(i) == (CHOOSE k \in 1..N : servers[k] = reqs[i].server) - 1

\* request i is a GET that missed the cache, was answered 200 by its backend
\* and has returned: its response is stored
StoredGet(i) ==
    /\ reqs[i].method = "GET" /\ reqs[i].pc = "done" /\ ~reqs[i].hit
    /\ Selected(i)
    /\ reqs[i].dw # TransportError
    /\ reqs[i].dw.status = 200

\* request i completes in this step
Completes(i) == i \in 1..Len(reqs) /\ reqs[i].pc = "reply" /\ reqs'[i].pc = "done"

\* a request is received in this step
Received == Len(reqs') = Len(reqs) + 1

query(u) == LET parts == Split(u, "?") IN IF Len(parts) >= 2 THEN parts[2] ELSE <<>>

formatParam(u) == ParamsGet(URLSearchParams(query(u)), <<"format">>)

otherParams(u) == ParamsDelete(URLSearchParams(query(u)), <<"format">>)

AllUrls == {inp.url : inp \in Inputs \cup ReadInputs \cup WriteInputs \cup RouteInputs}

\* C1: on a fresh LoadBalancer the i-th selection (from 0) returns servers[i mod N],
\* so after M = k*N selections each backend has been selected exactly k times
C1_RoundRobinFairness ==
    /\ \A i \in 1..Len(reqs) :
          Selected(i) => reqs[i].server = servers[((Rank(i) - 1) % N) + 1]
    /\ NumSelected % N = 0 =>
          \A k \in 1..N :
             Cardinality({i \in 1..Len(reqs) : reqs[i].server = servers[k]}) = NumSelected \div N

\* a pool of several backends has been cycled through completely
C1_Witness == N >= 2 /\ NumSelected >= N /\ NumSelected % N = 0

\* C2: the cursor is always within the pool, every selection moves it to
\* (cursor + 1) mod pool size, and no other step moves it, whatever becomes of
\* the forwarded request
C2_CursorAdvance ==
    /\ [](currentIndex \in 0..(N - 1))
    /\ [][IF NumSelected' > NumSelected
          THEN currentIndex' = (currentIndex + 1) % N
          ELSE currentIndex' = currentIndex]_vars

\* requests have succeeded, been rejected and failed at transport level, and
\* the cursor stands where the selections left it
C2_Witness ==
    /\ N >= 2
    /\ \E i, j, k \in 1..Len(reqs) :
          /\ reqs[i].pc = "done" /\ Selected(i) /\ reqs[i].dw = TransportError
          /\ reqs[j].pc = "done" /\ Selected(j) /\ reqs[j].dw # TransportError
          /\ reqs[j].dw.status >= 400
          /\ reqs[k].pc = "done" /\ Selected(k) /\ reqs[k].dw # TransportError
          /\ reqs[k].dw.status < 400
    /\ currentIndex = NumSelected % N

\* C3: with several requests in flight, consecutive selections received
\* consecutive cursor values: none was handed out twice before it advanced, the
\* picks are those of sequential round-robin, and every index is in range
C3_AtomicSelection ==
    \A i, j \in 1..Len(reqs) :
       /\ Selected(i) => PickedIndex(i) \in 0..(N - 1)
       /\ (Selected(i) /\ Rank(i) = 1) => PickedIndex(i) = 0
       /\ (Selected(i) /\ Selected(j) /\ Rank(j) = Rank(i) + 1) =>
             PickedIndex(j) = (PickedIndex(i) + 1) % N

\* three requests are with their backends at once
C3_Witness ==
    /\ N = 3
    /\ Cardinality({i \in 1..Len(reqs) : reqs[i].pc = "forward"}) = 3

\* C4: a GET that misses and is answered 200, followed by an identical GET
\* within the TTL: the second client's response is the first client's
C4_CacheHitIdentical ==
    \A i \in 1..(Len(reqs) - 1) :
       (/\ StoredGet(i)
        /\ reqs[i+1].method = "GET" /\ reqs[i+1].url = reqs[i].url
        /\ reqs[i+1].accept = reqs[i].accept
        /\ reqs[i+1].pc = "done"
        /\ reqs[i+1].startTime - reqs[i].startTime < TTL)
       => reqs[i+1].res = reqs[i].res

\* C5: a GET that finds a live entry is answered with exactly that entry,
\* counts as one cache hit and returns at once: no backend is selected for it
\* or contacted, then or later
C5_CacheHitTerminates ==
    /\ [](\A i \in 1..Len(reqs) :
             reqs[i].hit => /\ reqs[i].pc = "done"
                            /\ ~Selected(i)
                            /\ reqs[i].dw = Null)
    /\ [][Received =>
            LET r == reqs'[Len(reqs')]
                inp == [method |-> r.method, url |-> r.url, accept |-> r.accept]
                cached == CacheGet(store, now, r.method, r.url)
            IN  (IsDispatched(inp) /\ r.method = "GET" /\ cached # Null) =>
                  /\ r.hit /\ r.pc = "done"
                  /\ r.res = Response(cached.statusCode, cached.headers, cached.body)
                  /\ metrics'.cacheHits = metrics.cacheHits + 1
                  /\ metrics'.cacheMisses = metrics.cacheMisses
                  /\ metrics'.totalRequests = metrics.totalRequests + 1
                  /\ currentIndex' = currentIndex
                  /\ store' = store
                  /\ db' = db]_vars

\* a request has been answered from the cache while another was with its backend
C5_Witness ==
    \E i, j \in 1..Len(reqs) :
       /\ reqs[i].hit /\ reqs[i].res.status = 200
       /\ reqs[j].pc = "forward"
       /\ metrics.cacheHits = 1

\* C6: an identical GET that arrives at or after creation time + TTL of the
\* stored entry, the instant creation time + TTL included, misses the cache
\* and is forwarded to a backend
C6_ExpiryAtTTL ==
    \A i \in 1..(Len(reqs) - 1) :
       (/\ StoredGet(i)
        /\ reqs[i+1].method = "GET" /\ reqs[i+1].url = reqs[i].url
        /\ reqs[i+1].startTime - reqs[i].startTime >= TTL)
       => ~reqs[i+1].hit /\ Selected(i+1)

\* u1 and u2 have the same path and other parameters, one asks for json and the
\* other for xml
FormatTwins(u1, u2) ==
    /\ pathname(u1) = pathname(u2)
    /\ Len(otherParams(u1)) = Len(otherParams(u2))
    /\ {otherParams(u1)[a] : a \in 1..Len(otherParams(u1))}
          = {otherParams(u2)[a] : a \in 1..Len(otherParams(u2))}
    /\ {formatParam(u1), formatParam(u2)} = {<<"json">>, <<"xml">>}

\* C7: two GETs that differ in the format parameter only (json, xml) have
\* different cache keys, and storing the response to one changes nothing about
\* what a lookup of the other finds
C7_FormatIsolation ==
    [][\A i \in 1..Len(reqs) :
          Completes(i) =>
             \A u2 \in AllUrls :
                FormatTwins(reqs[i].url, u2) =>
                   /\ generateKey("GET", u2) # generateKey("GET", reqs[i].url)
                   /\ CacheGet(store', now', "GET", u2) = CacheGet(store, now, "GET", u2)]_vars

\* the json response is stored, and the request for xml that follows within the
\* TTL misses
C7_Witness ==
    \E i \in 1..(Len(reqs) - 1) :
       /\ StoredGet(i) /\ reqs[i].url = PageJson
       /\ reqs[i+1].url = PageXml /\ ~reqs[i+1].hit /\ Selected(i+1)
       /\ reqs[i+1].startTime - reqs[i].startTime < TTL

\* u1 and u2 have the same path and format and the same distinctly named
\* parameters, in different orders
Permuted(u1, u2) ==
    LET p1 == otherParams(u1)
        p2 == otherParams(u2)
    IN  /\ pathname(u1) = pathname(u2)
        /\ formatParam(u1) = formatParam(u2)
        /\ \A a, b \in 1..Len(p1) : a # b => p1[a][1] # p1[b][1]
        /\ Len(p1) = Len(p2)
        /\ {p1[a] : a \in 1..Len(p1)} = {p2[a] : a \in 1..Len(p2)}
        /\ p1 # p2

\* C8: two GETs with the same path, format and distinctly named parameters in
\* different orders have the same cache key: the second, within the TTL, is
\* answered from the entry the first stored
C8_QueryOrderInvariance ==
    \A i \in 1..(Len(reqs) - 1) :
       (/\ StoredGet(i)
        /\ reqs[i+1].method = "GET"
        /\ Permuted(reqs[i].url, reqs[i+1].url)
        /\ reqs[i+1].startTime - reqs[i].startTime < TTL)
       => /\ generateKey("GET", reqs[i+1].url) = generateKey("GET", reqs[i].url)
          /\ reqs[i+1].hit
          /\ reqs[i+1].res.body = reqs[i].dw.data

\* limit=5&offset=0 is stored and offset=0&limit=5 is answered from it later
C8_Witness ==
    \E i \in 1..(Len(reqs) - 1) :
       /\ StoredGet(i) /\ reqs[i].url = PageJson
       /\ reqs[i+1].url = PageJsonSwapped /\ reqs[i+1].hit
       /\ reqs[i+1].startTime > reqs[i].startTime

\* requests i, i+1, i+2 are a stored GET, a write to the GET's resource family
\* that has returned, and the same GET again
GetWriteGet(i) ==
    /\ StoredGet(i)
    /\ reqs[i+1].method \in {"POST", "PUT", "DELETE"}
    /\ reqs[i+1].pc = "done"
    /\ ResourceOf(reqs[i+1].url) = ResourceOf(reqs[i].url)
    /\ reqs[i+2].method = "GET" /\ reqs[i+2].url = reqs[i].url

\* C9 as stated, for the writes a backend applied: for any resource family,
\* GET (stored), then a write to the family, then the same GET: the last GET
\* misses and is forwarded
C9_WriteInvalidation ==
    \A i \in 1..(Len(reqs) - 2) :
       (/\ GetWriteGet(i)
        /\ reqs[i+1].dw # TransportError
        /\ reqs[i+1].dw.status < 400)
       => ~reqs[i+2].hit /\ Selected(i+2)

\* C9 amended: the same for the /employees family, the one the invalidation
\* pattern names, whatever the outcome of the write
C9_WriteInvalidationEmployees ==
    \A i \in 1..(Len(reqs) - 2) :
       (GetWriteGet(i) /\ ResourceOf(reqs[i].url) = "employees")
       => ~reqs[i+2].hit /\ Selected(i+2)

\* GET /employees is stored, an employee is deleted, and GET /employees is
\* forwarded again
C9_Witness ==
    /\ Len(reqs) = 3
    /\ GetWriteGet(1)
    /\ reqs[1].url = EmployeesJson
    /\ reqs[2].method = "DELETE"
    /\ ~reqs[3].hit /\ Selected(3)

\* C10: a GET answered from the cache never gets a body older than a write to
\* its resource that a backend applied and the proxy answered before the GET
\* arrived
C10_NoStaleHit ==
    [][Received =>
         LET r == reqs'[Len(reqs')]
         IN  r.hit =>
                \A w \in 1..Len(reqs) :
                   (/\ reqs[w].method \in {"POST", "PUT", "DELETE"}
                    /\ reqs[w].pc = "done"
                    /\ reqs[w].dw # TransportError
                    /\ reqs[w].dw.status < 400
                    /\ ResourceOf(reqs[w].url) = ResourceOf(r.url))
                   => r.res.body.version >= reqs[w].dw.data.version]_vars

----------------------------------------------------------------------------
(* Claims C11 to C20 *)

\* the request received in this step, as the input it was
ReceivedInput ==
    LET r == reqs'[Len(reqs')]
    IN  [method |-> r.method, url |-> r.url, accept |-> r.accept]

\* C11: the step that receives a write runs invalidate before the write goes to
\* a backend: after the step the write is still unanswered, every entry whose
\* key contains the pattern is gone and a lookup of it finds nothing; and from
\* then on an entry appears in the cache only when a GET that a backend answered
\* with 200 stores its own response, so no lookup returns what was removed
C11_InvalidateBeforeForward ==
    [][/\ (/\ Received
           /\ IsDispatched(ReceivedInput)
           /\ ReceivedInput.method \in {"POST", "PUT", "DELETE"})
          => /\ reqs'[Len(reqs')].pc = "forward"
             /\ reqs'[Len(reqs')].dw = Null
             /\ \A k \in DOMAIN store : Includes(k, InvalidatePattern) => k \notin DOMAIN store'
             /\ \A u \in AllUrls :
                   Includes(generateKey("GET", u), InvalidatePattern)
                      => CacheGet(store', now', "GET", u) = Null
       /\ \A k \in DOMAIN store' :
             (k \notin DOMAIN store \/ store'[k] # store[k])
             => \E i \in 1..Len(reqs) :
                   /\ Completes(i)
                   /\ reqs[i].method = "GET"
                   /\ reqs[i].dw.status = 200
                   /\ generateKey("GET", reqs[i].url) = k
                   /\ store'[k].body = reqs[i].dw.data]_vars

\* GET /employees was stored, a POST arrived later and is with its backend, and
\* the cache no longer holds the entry
C11_Witness ==
    /\ Len(reqs) = 2
    /\ StoredGet(1) /\ reqs[1].url = EmployeesJson
    /\ reqs[2].method = "POST" /\ reqs[2].pc = "forward"
    /\ generateKey("GET", EmployeesJson) \notin DOMAIN store

WriteMethods == {"POST", "PUT", "DELETE"}

\* this step receives a write or moves a write on
WriteStep ==
    \/ Received /\ ReceivedInput.method \in WriteMethods
    \/ \E i \in 1..Len(reqs) : reqs[i].method \in WriteMethods /\ reqs'[i] # reqs[i]

\* C12: every key of the cache is the key of a GET, and no step of a POST, PUT
\* or DELETE, from its receipt to its response and whatever status the backend
\* answered, adds an entry or changes one: the entries after the request are
\* among those before it
C12_WritesNeverStored ==
    /\ [](\A k \in DOMAIN store : k[1] = "GET")
    /\ [][WriteStep =>
            /\ DOMAIN store' \subseteq DOMAIN store
            /\ \A k \in DOMAIN store' : store'[k] = store[k]]_vars

\* a PUT was answered 200 and has returned, and the cache holds what it held
\* before, the entry of another resource
C12_Witness ==
    /\ Len(reqs) = 2
    /\ StoredGet(1) /\ reqs[1].url = Departments
    /\ reqs[2].method = "PUT" /\ reqs[2].pc = "done"
    /\ reqs[2].dw # TransportError /\ reqs[2].dw.status = 200
    /\ reqs[2].res.status = 200
    /\ DOMAIN store = {generateKey("GET", Departments)}

\* C13: every entry of the cache has statusCode 200; an entry is created or
\* replaced only in the step in which a GET that a backend answered with status
\* 200 returns; and a request whose backend answered with any other status, or
\* did not answer, leaves the cache as it was
C13_OnlyOkStored ==
    /\ [](\A k \in DOMAIN store : store[k].statusCode = 200)
    /\ [][/\ \A k \in DOMAIN store' :
                (k \notin DOMAIN store \/ store'[k] # store[k])
                => \E i \in 1..Len(reqs) :
                      /\ Completes(i)
                      /\ reqs[i].method = "GET"
                      /\ reqs[i].dw # TransportError
                      /\ reqs[i].dw.status = 200
          /\ \A i \in 1..Len(reqs) :
                (Completes(i) /\ (reqs[i].dw = TransportError \/ reqs[i].dw.status # 200))
                => store' = store]_vars

\* a GET answered 304 and a GET answered 404 have returned and the cache is
\* empty
C13_Witness ==
    /\ Len(reqs) = 2
    /\ reqs[1].method = "GET" /\ reqs[1].pc = "done" /\ reqs[1].res # Null
    /\ reqs[1].dw # TransportError /\ reqs[1].dw.status = 304
    /\ reqs[1].res.status = 304
    /\ reqs[2].method = "GET" /\ reqs[2].pc = "done"
    /\ reqs[2].dw # TransportError /\ reqs[2].dw.status = 404
    /\ reqs[2].res.status = 404
    /\ DOMAIN store = {}

\* request i has returned the response of a backend that answered
Answered(i) ==
    /\ reqs[i].pc = "done" /\ Selected(i)
    /\ reqs[i].dw # TransportError

\* C14: a request whose backend answered with status >= 400 returns that status
\* and the backend's body as the backend sent it, the empty body included
C14_ErrorVerbatim ==
    \A i \in 1..Len(reqs) :
       (Answered(i) /\ reqs[i].dw.status >= 400)
       => /\ reqs[i].res.status = reqs[i].dw.status
          /\ reqs[i].res.body = reqs[i].dw.data

\* C15: a request whose forwarding failed at transport level returns 500; the
\* cursor has advanced once per forwarded request; and a request that has left
\* its backend never goes to a backend again, keeps the backend selected for it,
\* and returns in the step in which its handler resumes after the failure,
\* without a selection
C15_NoRetryNoFailover ==
    /\ [](\A i \in 1..Len(reqs) :
             (reqs[i].pc = "done" /\ Selected(i) /\ reqs[i].dw = TransportError)
             => reqs[i].res.status = 500)
    /\ [](currentIndex = NumSelected % N)
    /\ [][\A i \in 1..Len(reqs) :
             /\ reqs'[i].server = reqs[i].server
             /\ reqs[i].pc \in {"reply", "done"} => reqs'[i].pc # "forward"
             /\ (reqs[i].pc = "reply" /\ reqs[i].dw = TransportError /\ reqs'[i] # reqs[i])
                => /\ reqs'[i].pc = "done"
                   /\ currentIndex' = currentIndex]_vars

\* a request failed at transport level and returned 500, and the next request
\* went to the next backend of the rotation
C15_Witness ==
    /\ N >= 2
    /\ Len(reqs) = 2
    /\ reqs[1].pc = "done" /\ reqs[1].server = servers[1]
    /\ reqs[1].dw = TransportError /\ reqs[1].res.status = 500
    /\ reqs[2].server = servers[2]
    /\ currentIndex = 2 % N

\* C16: with three backends of which one cannot be reached, every request that
\* went to that one returned a 500-class response and every request that went
\* to another returned its backend's status and, below 400, its body; the
\* selections follow the rotation as if no backend had failed, so the failing
\* backend is selected again one cycle later; and the cursor has advanced once
\* per selection, those of the failing backend included
C16_FailureIsolation ==
    /\ \A i \in 1..Len(reqs) :
          (reqs[i].pc = "done" /\ Selected(i)) =>
             IF reqs[i].server = UnreachableServer
             THEN reqs[i].res.status \in 500..599
             ELSE /\ reqs[i].dw # TransportError
                  /\ reqs[i].res.status = reqs[i].dw.status
                  /\ reqs[i].dw.status < 400 => reqs[i].res.body = reqs[i].dw.data
    /\ \A i \in 1..Len(reqs) :
          Selected(i) => reqs[i].server = servers[((Rank(i) - 1) % N) + 1]
    /\ \A i, j \in 1..Len(reqs) :
          (Selected(i) /\ Selected(j) /\ Rank(j) = Rank(i) + N)
          => reqs[j].server = reqs[i].server
    /\ currentIndex = NumSelected % N

\* four requests were forwarded: the first and the fourth went to the backend
\* that cannot be reached and returned 500, the two between them succeeded
C16_Witness ==
    /\ Len(reqs) = 4 /\ AllDone
    /\ servers[1] = UnreachableServer
    /\ reqs[1].server = UnreachableServer /\ reqs[1].res.status = 500
    /\ reqs[4].server = UnreachableServer /\ reqs[4].res.status = 500
    /\ reqs[2].server = servers[2] /\ reqs[2].res.status \in {200, 201}
    /\ reqs[3].server = servers[3] /\ reqs[3].res.status \in {200, 201}
    /\ currentIndex = 1

\* the requests that went through the cache probe and have returned: answered
\* from the cache, or forwarded and answered, rejected or failed
Handled == {i \in 1..Len(reqs) : reqs[i].pc = "done" /\ (reqs[i].hit \/ Selected(i))}

\* C17: totalRequests counts every request that went through the cache probe and
\* has returned, once, whatever its outcome
C17_MetricsAlwaysUpdated == metrics.totalRequests = Cardinality(Handled)

\* C18: every request received is eventually answered
C18_EventuallyAnswered ==
    \A i \in 1..MaxRequests :
       [](Len(reqs) >= i => <>(Len(reqs) >= i /\ reqs[i].pc = "done"))

\* headers h carry the headers of addCORSHeaders
HasCORS(h) == \A n \in DOMAIN CORSHeaders : n \in DOMAIN h /\ h[n] = CORSHeaders[n]

\* C19: every OPTIONS request, whatever its path, has returned status 200 with
\* the CORS headers in the step that received it, and no cache probe answered
\* it and no backend was selected for it
C19_PreflightEveryPath ==
    \A i \in 1..Len(reqs) :
       reqs[i].method = "OPTIONS"
       => /\ reqs[i].pc = "done"
          /\ reqs[i].res.status = 200
          /\ HasCORS(reqs[i].res.headers)
          /\ ~reqs[i].hit
          /\ ~Selected(i)

\* the path of u ends in a static file extension
StaticPath(u) ==
    LET p == pathname(u)
    IN  Len(p) > 0 /\ toLowerCase(p[Len(p)]) \in staticExtensions

\* C20: a request for a path that ends in a static file extension, with or
\* without a query string and whatever its method, is not forwarded, has no
\* backend selected for it, is not answered from the cache and leaves no entry
\* in it
C20_StaticBypass ==
    \A i \in 1..Len(reqs) :
       StaticPath(reqs[i].url)
       => /\ ~Selected(i)
          /\ ~reqs[i].hit
          /\ generateKey(reqs[i].method, reqs[i].url) \notin DOMAIN store

----------------------------------------------------------------------------
(* Claims C21 to C30 *)

\* C21: the process listens only with a pool that is not empty: constructing the
\* LoadBalancer ends the start in a crash exactly when the pool is empty, a
\* crashed process takes no request, and every selection was made from a pool
\* that is not empty
C21_EmptyPoolRejected ==
    /\ [](proc = "listening" => Len(servers) > 0)
    /\ [](Len(servers) = 0 => reqs = <<>>)
    /\ [](proc = "crashed" => reqs = <<>>)
    /\ [][proc = "starting" => (proc' = "crashed" <=> servers' = <<>>)]_vars

\* the LoadBalancer was constructed with the empty pool and the process ended
C21_Witness == proc = "crashed" /\ servers = <<>> /\ reqs = <<>>

\* this step is a call of the Cache's operation op
Calls(op) == call' # call /\ call'.op = op

\* the store st without the keys in ks
Without(st, ks) == [k \in DOMAIN st \ ks |-> st[k]]

\* C22: Cache.get returns null exactly when the method is not GET, the key is
\* not in the store, or the time is past the entry's expiresAt, and otherwise
\* the entry of the key; when the entry's expiration has passed the call
\* deletes that entry and no other, and in every other case the store is as it
\* was
C22_LookupContract ==
    [][Calls("get") =>
         LET k == generateKey(call'.method, call'.url)
             isGet == call'.method \in {"GET", "get"}
             present == k \in DOMAIN store
             expired == present /\ now > store[k].expiresAt
         IN  /\ call'.ret = Null <=> (~isGet \/ ~present \/ expired)
             /\ call'.ret # Null => call'.ret = store[k]
             /\ IF isGet /\ expired
                THEN store' = Without(store, {k})
                ELSE store' = store]_vars

\* a lookup past the expiration found its entry expired and deleted it, and the
\* entry of the other key, as old, is still in the store
C22_Witness ==
    /\ call # Null /\ call.op = "get" /\ call.url = EmployeesJson
    /\ call.ret = Null /\ call.log = "Cache entry expired"
    /\ call.at = TTL + 1
    /\ DOMAIN store = {generateKey("GET", Departments)}
    /\ store[generateKey("GET", Departments)].cachedAt = 0

\* C23: Cache.set changes nothing for a method other than GET; for GET the key
\* holds afterwards the entry just given, stamped with the time of the call,
\* whatever it held before, and every other key holds what it held
C23_StoreContract ==
    [][Calls("set") =>
         LET k == generateKey(call'.method, call'.url)
         IN  IF call'.method \notin {"GET", "get"}
             THEN store' = store
             ELSE /\ DOMAIN store' = DOMAIN store \cup {k}
                  /\ store'[k].body = call'.body
                  /\ store'[k].statusCode = 200
                  /\ store'[k].cachedAt = now
                  /\ store'[k].expiresAt = now + ttlSeconds * MsPerSecond
                  /\ \A j \in DOMAIN store \ {k} : store'[j] = store[j]]_vars

\* an entry was stored again one TTL after the entries of both keys were first
\* stored: it has the new body and time, the other key the old
C23_Witness ==
    /\ call # Null /\ call.op = "set" /\ call.method = "GET" /\ call.body = "b"
    /\ call.at = TTL
    /\ DOMAIN store = {generateKey("GET", Employees), generateKey("GET", Departments)}
    /\ store[generateKey("GET", call.url)].body = "b"
    /\ store[generateKey("GET", call.url)].cachedAt = TTL
    /\ \E k \in DOMAIN store : store[k].cachedAt = 0 /\ store[k].body = "a"

\* C24: Cache.invalidate deletes the entries whose key contains the pattern and
\* leaves the others as they were; Cache.clear leaves no entry
C24_InvalidateClearContract ==
    [][/\ Calls("invalidate") =>
            /\ DOMAIN store' = {k \in DOMAIN store : ~Includes(k, call'.pattern)}
            /\ \A k \in DOMAIN store' : store'[k] = store[k]
       /\ Calls("clear") => DOMAIN store' = {}]_vars

\* an invalidation deleted the entry of one key and left that of the other
C24_Witness ==
    /\ call # Null /\ call.op = "invalidate" /\ call.pattern = InvalidatePattern
    /\ call.log = 1
    /\ DOMAIN store = {generateKey("GET", Departments)}

\* the format request i asks for: that of its format parameter when it is json
\* or xml, else xml when its Accept header names an xml type, else json
RequestedFormat(i) ==
    IF formatParam(reqs[i].url) \in {<<"json">>, <<"xml">>}
    THEN formatParam(reqs[i].url)[1]
    ELSE IF \E t \in 1..Len(reqs[i].accept) :
               reqs[i].accept[t] \in {"application/xml", "text/xml"}
         THEN "xml"
         ELSE "json"

\* C25: a GET answered from the cache gets a body in the format it asked for,
\* by parameter or by Accept header: a request for xml is never answered from an
\* entry stored for a request for json
C25_FormatNeverCollides ==
    \A i \in 1..Len(reqs) :
       reqs[i].hit => reqs[i].res.body.format = RequestedFormat(i)

\* the requests that have run updateMetrics: answered from the cache, or
\* answered by a backend with a status below 400, and returned
Counted ==
    {i \in 1..Len(reqs) :
        /\ reqs[i].pc = "done"
        /\ \/ reqs[i].hit
           \/ Selected(i) /\ reqs[i].dw # TransportError /\ reqs[i].dw.status < 400}

RECURSIVE SumOver(_, _)
SumOver(f, ks) ==
    IF ks = {} THEN 0
    ELSE LET k == CHOOSE x \in ks : TRUE IN f[k] + SumOver(f, ks \ {k})

\* C26: however the requests interleave, totalRequests is the number of
\* requests that have run updateMetrics, and so are cacheHits + cacheMisses,
\* the sum of requestsByServer and the number of response times kept; cacheHits
\* is the number of them answered from the cache
C26_NoLostUpdates ==
    /\ metrics.totalRequests = Cardinality(Counted)
    /\ metrics.cacheHits + metrics.cacheMisses = Cardinality(Counted)
    /\ metrics.cacheHits = Cardinality({i \in Counted : reqs[i].hit})
    /\ SumOver(metrics.requestsByServer, DOMAIN metrics.requestsByServer) = Cardinality(Counted)
    /\ Len(responseTimes) = IF Cardinality(Counted) > MaxResponseTimes
                            THEN MaxResponseTimes
                            ELSE Cardinality(Counted)

\* two identical GETs were with their backends at once, both were answered 200
\* and both have returned: two updates, neither from the cache
C26_Witness ==
    /\ Len(reqs) >= 2
    /\ \A i \in {1, 2} :
          /\ reqs[i].method = "GET" /\ reqs[i].url = EmployeesJson
          /\ reqs[i].pc = "done" /\ ~reqs[i].hit
          /\ reqs[i].dw # TransportError /\ reqs[i].dw.status = 200
    /\ metrics.totalRequests = 2
    /\ metrics.cacheMisses = 2

\* request i was forwarded, failed at transport level and has returned
Failed(i) == reqs[i].pc = "done" /\ Selected(i) /\ reqs[i].dw = TransportError

ThreeIdenticalGets ==
    /\ Len(reqs) = 3
    /\ \A i \in 1..3 : reqs[i].method = "GET" /\ reqs[i].url = EmployeesJson

C29_ExpiryIsCreationPlusTTL ==
    /\ [](\A k \in DOMAIN store :
             store[k].expiresAt = store[k].cachedAt + ttlSeconds * MsPerSecond)
    /\ [][\A k \in DOMAIN store' :
             (\/ k \notin DOMAIN store
              \/ store'[k].cachedAt # store[k].cachedAt
              \/ store'[k].expiresAt # store[k].expiresAt)
             => /\ \E i \in 1..Len(reqs) :
                      /\ Completes(i) /\ reqs[i].method = "GET"
                      /\ generateKey("GET", reqs[i].url) = k
                /\ store'[k].cachedAt = now]_vars

\* an entry stored one TTL after the start, and another stored at the start and
\* still in the store
C29_Witness ==
    \E k, j \in DOMAIN store :
       /\ store[k].cachedAt = TTL /\ store[k].expiresAt = 2 * TTL
       /\ store[j].cachedAt = 0 /\ store[j].expiresAt = TTL

\* C30: the step that serves GET /metrics changes neither the metrics, the
\* response times, the cache, the cursor nor the database; no backend is
\* selected for it; and it reports the metrics, the pool and the cursor as they
\* are
C30_MetricsReadOnly ==
    [][(Received /\ IsMetrics(ReceivedInput)) =>
         LET r == reqs'[Len(reqs')]
         IN  /\ metrics' = metrics /\ responseTimes' = responseTimes
             /\ store' = store /\ currentIndex' = currentIndex /\ db' = db
             /\ r.pc = "done" /\ r.server = None /\ r.dw = Null
             /\ r.res.status = 200
             /\ r.res.body.metrics = metrics
             /\ r.res.body.servers = servers
             /\ r.res.body.currentIndex = currentIndex]_vars

\* after a forwarded GET that was answered, /metrics reported one request and
\* the cursor at 1, and both are still so
C30_Witness ==
    /\ N >= 2 /\ Len(reqs) = 2
    /\ StoredGet(1)
    /\ reqs[2].url = MetricsUrl /\ reqs[2].pc = "done"
    /\ reqs[2].res.body.metrics.totalRequests = 1
    /\ reqs[2].res.body.currentIndex = 1
    /\ metrics.totalRequests = 1 /\ currentIndex = 1

\* u1 and u2 have the same query, and the path of one is the path of the other
\* with one slash after it
SlashTwins(u1, u2) ==
    /\ query(u1) = query(u2)
    /\ \/ pathname(u1) = pathname(u2) \o <<"/">>
       \/ pathname(u2) = pathname(u1) \o <<"/">>

\* the keys of the GETs whose responses were stored
StoredKeys == {generateKey("GET", reqs[i].url) : i \in {j \in 1..Len(reqs) : StoredGet(j)}}

\* C31: two GETs whose paths differ by one trailing slash, with the same query,
\* have the same key, and the second, within the TTL, is answered from the entry
\* the first stored; so is a second GET of the same URL; and the store holds one
\* entry for each key of a stored response
C31_TrailingSlashShared ==
    /\ \A i \in 1..(Len(reqs) - 1) :
          (/\ StoredGet(i) /\ reqs[i+1].method = "GET"
           /\ \/ SlashTwins(reqs[i].url, reqs[i+1].url)
              \/ reqs[i+1].url = reqs[i].url)
          => /\ generateKey("GET", reqs[i+1].url) = generateKey("GET", reqs[i].url)
             /\ reqs[i+1].hit
             /\ reqs[i+1].res.body = reqs[i].dw.data
    /\ DOMAIN store = StoredKeys

\* /employees/?format=json was stored, /employees?format=json was answered from
\* it, and the store holds one entry
C31_Witness ==
    /\ Len(reqs) >= 2
    /\ StoredGet(1) /\ reqs[1].url = EmployeesSlashJson
    /\ reqs[2].url = EmployeesJson /\ reqs[2].hit
    /\ Cardinality(DOMAIN store) = 1

\* u1 and u2 have the same path and the same other parameters
SameButFormat(u1, u2) ==
    /\ pathname(u1) = pathname(u2)
    /\ otherParams(u1) = otherParams(u2)

\* the formats of u1 and u2 are the same, or each is json or not given (a
\* format parameter with an empty value gives none)
SameFormat(u1, u2) ==
    \/ formatParam(u1) = formatParam(u2)
    \/ {formatParam(u1), formatParam(u2)} \subseteq {<<>>, <<"json">>}

\* C39: of two GETs with the same path and other parameters, one without a
\* format and one with format=json have the same key, and the second, within
\* the TTL, is answered from the entry the first stored; two whose formats
\* differ otherwise (json or none, and xml) have different keys, and the second
\* is answered from the cache only if an earlier GET stored an entry under its
\* own key
C39_DefaultFormatShared ==
    \A i \in 1..(Len(reqs) - 1) :
       (/\ StoredGet(i) /\ reqs[i+1].method = "GET"
        /\ SameButFormat(reqs[i].url, reqs[i+1].url))
       => IF SameFormat(reqs[i].url, reqs[i+1].url)
          THEN /\ generateKey("GET", reqs[i+1].url) = generateKey("GET", reqs[i].url)
               /\ reqs[i+1].hit
               /\ reqs[i+1].res.body = reqs[i].dw.data
          ELSE /\ generateKey("GET", reqs[i+1].url) # generateKey("GET", reqs[i].url)
               /\ reqs[i+1].hit =>
                     \E j \in 1..(i - 1) :
                        /\ StoredGet(j)
                        /\ generateKey("GET", reqs[j].url) = generateKey("GET", reqs[i+1].url)

\* /employees was stored, /employees?format=json was answered from it, and
\* /employees?format=xml missed and was stored as a second entry
C39_Witness ==
    /\ Len(reqs) = 3
    /\ StoredGet(1) /\ reqs[1].url = Employees
    /\ reqs[2].url = EmployeesJson /\ reqs[2].hit
    /\ StoredGet(3) /\ reqs[3].url = EmployeesXml
    /\ Cardinality(DOMAIN store) = 2

\* the headers of the connection
ConnectionHeaders == {"host", "connection", "content-length", "transfer-encoding"}

\* C32: the headers sent to the backend for a forwarded request hold none of
\* host, connection, content-length and transfer-encoding, and hold every other
\* header of the client whose value is not empty, with the client's value (the
\* first value, when Node holds the header as an array); a request that is not
\* forwarded sends none
C32_ForwardedHeaders ==
    \A i \in 1..Len(reqs) :
       IF Selected(i)
       THEN /\ \A n \in DOMAIN reqs[i].sent : toLowerCase(n) \notin ConnectionHeaders
            /\ \A n \in DOMAIN reqs[i].headers :
                  (toLowerCase(n) \notin ConnectionHeaders /\ reqs[i].headers[n].value # "")
                  => /\ n \in DOMAIN reqs[i].sent
                     /\ reqs[i].sent[n] = IF reqs[i].headers[n].array
                                          THEN reqs[i].headers[n].value[1]
                                          ELSE reqs[i].headers[n].value
       ELSE reqs[i].sent = Null

\* a POST that came with the four headers of the connection, a credential, an
\* empty content type and two cookies went to its backend with the credential,
\* the first cookie and the content type forwardRequest adds
C32_Witness ==
    /\ Len(reqs) = 1 /\ reqs[1].pc = "done" /\ reqs[1].method = "POST"
    /\ DOMAIN reqs[1].headers = DOMAIN HeaderValues
    /\ reqs[1].headers["content-type"] = StringValue("")
    /\ reqs[1].sent = [n \in {"authorization", "set-cookie", "content-type"} |->
                          CASE n = "authorization" -> "tok"
                            [] n = "set-cookie" -> "a"
                            [] n = "content-type" -> "application/json"]

\* the response time of the request that returns in this step
ReturnedTime ==
    LET j == CHOOSE j \in 1..Len(reqs') :
                /\ reqs'[j].pc = "done"
                /\ j > Len(reqs) \/ reqs[j].pc # "done"
    IN  now - reqs'[j].startTime

\* C33: responseTimes never holds more than 100 samples; every step that
\* updates the metrics appends the response time of the request it answers,
\* and drops the oldest sample when there were 100 already; and
\* averageResponseTime is the sum of the samples kept over their number
C33_WindowBounded ==
    /\ [](/\ Len(responseTimes) <= 100
          /\ Len(responseTimes) > 0 =>
                /\ metrics.averageResponseTime.sum = Sum(responseTimes)
                /\ metrics.averageResponseTime.count = Len(responseTimes))
    /\ [][metrics' # metrics =>
             responseTimes' = IF Len(responseTimes) < 100
                              THEN Append(responseTimes, ReturnedTime)
                              ELSE Append(Tail(responseTimes), ReturnedTime)]_vars

\* the first request took a while, a hundred more were answered at once: the
\* window is full, the first sample has left it and the average is 0
C33_Witness ==
    /\ metrics.totalRequests = 101
    /\ Len(reqs) >= 1
    /\ reqs[1].pc = "done" /\ now - reqs[1].startTime > 0
    /\ Len(responseTimes) = 100
    /\ metrics.averageResponseTime = [sum |-> 0, count |-> 100]

\* metrics.requestsByServer[s], 0 when the key is absent
ByServer(s) ==
    IF s \in DOMAIN metrics.requestsByServer THEN metrics.requestsByServer[s] ELSE 0

\* the backends of the pool
Backends == {servers[k] : k \in 1..N}

TimesSelected(k) ==
    Cardinality({i \in 1..Len(reqs) : Selected(i) /\ reqs[i].server = servers[k]})

\* C35: of two backends, the one earlier in the pool has been selected as often
\* as the other or once more
C35_BalancedSelection ==
    \A k1, k2 \in 1..N :
       k1 < k2 => /\ TimesSelected(k1) >= TimesSelected(k2)
                  /\ TimesSelected(k1) - TimesSelected(k2) <= 1

\* the rotation has gone around a pool of two and started again
C35_Witness ==
    /\ N = 2
    /\ TimesSelected(1) = 2 /\ TimesSelected(2) = 1

\* the request received in this step is one handleRequest forwards: not the
\* index page, a preflight, /metrics or a static file, and not a GET the cache
\* answers
ForwardedKind ==
    /\ Received
    /\ IsDispatched(ReceivedInput)
    /\ ReceivedInput.method = "GET" =>
          CacheGet(store, now, "GET", ReceivedInput.url) = Null

\* C36: the step that receives a request moves the cursor one place around the
\* pool when the request is forwarded (a GET that misses the cache, a write, any
\* other method) and leaves it where it is when the request is answered from
\* the cache, is a preflight, is served as a static file or is GET /metrics; no
\* other step moves it
C36_CursorFrame ==
    [][/\ ForwardedKind => /\ Selected(Len(reqs))' /\ reqs'[Len(reqs')].pc = "forward"
                           /\ currentIndex' = (currentIndex + 1) % N
       /\ ~ForwardedKind => currentIndex' = currentIndex
       /\ (Received /\ ~ForwardedKind) =>
             /\ ~Selected(Len(reqs))' /\ reqs'[Len(reqs')].pc = "done"
             /\ \/ reqs'[Len(reqs')].hit
                \/ IsPreflight(ReceivedInput)
                \/ IsStatic(ReceivedInput) \/ IsIndex(ReceivedInput)
                \/ IsMetrics(ReceivedInput)]_vars

\* with three backends: a GET was forwarded, the same GET was answered from the
\* cache, a preflight was answered, and the cursor stands at 1
C36_Witness ==
    /\ N = 3 /\ Len(reqs) = 3 /\ AllDone
    /\ StoredGet(1)
    /\ reqs[2].hit
    /\ reqs[3].method = "OPTIONS"
    /\ currentIndex = 1

\* request i is a GET with the key of the GET received in this step, and is
\* still with its backend or has not yet resumed
InFlightTwin(i) ==
    /\ Received /\ ReceivedInput.method = "GET"
    /\ reqs[i].method = "GET" /\ reqs[i].pc # "done"
    /\ generateKey("GET", reqs[i].url) = generateKey("GET", ReceivedInput.url)

\* C37: a GET that arrives while the same GET is still waiting, the cache
\* holding nothing for them, misses and is forwarded to the backend at the
\* cursor, the one after the first one's when no other selection came between,
\* and leaves the first as it was; and each of them, answered 200, stores its
\* own response over whatever the cache holds, so that the entry left is that
\* of the one that returned last
C37_NotCoalesced ==
    [][\A i \in 1..Len(reqs) :
          /\ (/\ InFlightTwin(i)
              /\ CacheGet(store, now, "GET", ReceivedInput.url) = Null)
             => LET r == reqs'[Len(reqs')]
                IN  /\ ~r.hit /\ r.pc = "forward"
                    /\ r.server = servers[currentIndex + 1]
                    /\ currentIndex' = (currentIndex + 1) % N
                    /\ Rank(i) = NumSelected =>
                          r.server = servers[((PickedIndex(i) + 1) % N) + 1]
                    /\ reqs'[i] = reqs[i]
          /\ (/\ Completes(i) /\ reqs[i].method = "GET"
              /\ reqs[i].dw # TransportError /\ reqs[i].dw.status = 200)
             => /\ generateKey("GET", reqs[i].url) \in DOMAIN store'
                /\ store'[generateKey("GET", reqs[i].url)].body = reqs[i].dw.data]_vars

\* two identical GETs were with their backends at once, on consecutive
\* backends; a write changed the data between their answers; both were stored
\* and the entry left is that of the first, which returned last
C37_Witness ==
    /\ N >= 2 /\ Len(reqs) = 3
    /\ reqs[1].url = EmployeesJson /\ reqs[2].url = EmployeesJson
    /\ StoredGet(1) /\ StoredGet(2)
    /\ reqs[1].server = servers[1] /\ reqs[2].server = servers[2]
    /\ reqs[1].dw.data # reqs[2].dw.data
    /\ generateKey("GET", EmployeesJson) \in DOMAIN store
    /\ store[generateKey("GET", EmployeesJson)].body = reqs[1].dw.data

\* the keys of the store that contain /employees
EmployeesKeys == {k \in DOMAIN store : Includes(k, <<"/", "employees">>)}

FailureStep(i) ==
    /\ i \in 1..Len(reqs)
    /\ reqs'[i] # reqs[i]
    /\ reqs'[i].dw = TransportError

\* this step receives a request and forwards it; whether it fails is decided
\* afterwards, by the backend
ForwardStep == Received /\ reqs'[Len(reqs')].pc = "forward"

\* C40 as stated: the step that forwards a request changes nothing in the cache
\* but what a write's invalidation removes, changes no metric, and moves the
\* cursor by one; the steps in which the request fails and is answered 500
\* change neither the cache, the metrics, the cursor nor the database
C40_FailureFrame ==
    [][/\ ForwardStep =>
             /\ store' = IF ReceivedInput.method \in WriteMethods
                         THEN Without(store, EmployeesKeys)
                         ELSE store
             /\ metrics' = metrics /\ responseTimes' = responseTimes /\ db' = db
             /\ currentIndex' = (currentIndex + 1) % N
       /\ \A i \in 1..Len(reqs) :
             FailureStep(i) =>
                /\ store' = store /\ metrics' = metrics /\ responseTimes' = responseTimes
                /\ currentIndex' = currentIndex /\ db' = db]_vars

\* the keys the step that forwards a request takes out of the store: those
\* containing /employees for a write, and for a GET its own key, whose entry,
\* if there is one, has expired
RemovedOnForward ==
    IF ReceivedInput.method \in WriteMethods THEN EmployeesKeys
    ELSE IF ReceivedInput.method = "GET" THEN {generateKey("GET", ReceivedInput.url)}
    ELSE {}

\* C40 amended: as stated, but the step that forwards a GET also removes the
\* expired entry of the GET's own key, if the store holds one
C40_FailureFrameExpiry ==
    [][/\ ForwardStep =>
             /\ store' = Without(store, RemovedOnForward)
             /\ ReceivedInput.method = "GET" =>
                   \A k \in RemovedOnForward \cap DOMAIN store : now > store[k].expiresAt
             /\ metrics' = metrics /\ responseTimes' = responseTimes /\ db' = db
             /\ currentIndex' = (currentIndex + 1) % N
       /\ \A i \in 1..Len(reqs) :
             FailureStep(i) =>
                /\ store' = store /\ metrics' = metrics /\ responseTimes' = responseTimes
                /\ currentIndex' = currentIndex /\ db' = db]_vars

\* two reads were stored and expired; the first was asked again and could not
\* reach its backend: its expired entry is gone, the other's is still there,
\* two requests are counted and the cursor has moved three times
C40_Witness ==
    /\ Len(reqs) = 3
    /\ StoredGet(1) /\ reqs[1].url = EmployeesJson
    /\ StoredGet(2) /\ reqs[2].url = Departments
    /\ Failed(3) /\ reqs[3].method = "GET" /\ reqs[3].url = EmployeesJson
    /\ DOMAIN store = {generateKey("GET", Departments)}
    /\ metrics.totalRequests = 2
    /\ currentIndex = 3 % N

====
